---- MODULE Spec2Model ----
(***************************************************************************)
(* Bank-statement analysis: the load -> classify -> aggregate -> report -> *)
(* advise pipeline, the single-slot session cache and the query resolver.  *)
(*                                                                         *)
(* Text is a sequence of character tokens.  A Chinese character is written *)
(* as an ASCII token (its pinyin, with a suffix where two characters share *)
(* a reading); Latin letters stand for themselves.  Amounts are integers.  *)
(* A datetime is a day ordinal (0 = 2023-01-01) and an hour of the day.    *)
(***************************************************************************)
EXTENDS Integers, Sequences, FiniteSets, TLC

VARIABLES
    cache,        \* _processed_df_cache: <<>> (None) or <<frame>>
    call,         \* the last call made: its operation and arguments
    outcome,      \* what that call handed back, or the exception it raised
    everLoaded,   \* some analyze_bank_statement call has returned
    lastGood      \* the rows of the latest load, while no load has failed since

vars == <<cache, call, outcome, everLoaded, lastGood>>

-----------------------------------------------------------------------------
(* Generic helpers                                                         *)

Range(s) == {s[i] : i \in 1..Len(s)}

Abs(n) == IF n < 0 THEN -n ELSE n

RECURSIVE SumSeq(_)
SumSeq(s) == IF s = <<>> THEN 0 ELSE Head(s) + SumSeq(Tail(s))

Amounts(rows) == [i \in 1..Len(rows) |-> rows[i].amount]

SetMax(S) == CHOOSE x \in S : \A y \in S : y <= x
SetMin(S) == CHOOSE x \in S : \A y \in S : x <= y

\* Sequences over S of length at most n.
SeqsUpTo(S, n) == UNION {[1..k -> S] : k \in 0..n}

-----------------------------------------------------------------------------
(* Text                                                                    *)

\* str.lower(): Latin capitals fold, every other character is unchanged.
Lower(c) ==
    CASE c = "K" -> "k"
      [] c = "T" -> "t"
      [] c = "V" -> "v"
      [] OTHER -> c

LowerStr(s) == [i \in 1..Len(s) |-> Lower(s[i])]

\* Python's `sub in s`.
Contains(sub, s) ==
    \E i \in 0..(Len(s) - Len(sub)) : \A j \in 1..Len(sub) : s[i + j] = sub[j]

\* re.compile(pat): an unbalanced "(" is a pattern error.
RegexValid(pat) == "(" \notin Range(pat)

\* re.search(pat, s, re.IGNORECASE) for a valid pattern: "." matches any
\* character, every other token matches itself up to case.
RegexSearch(pat, s) ==
    \E i \in 0..(Len(s) - Len(pat)) :
        \A j \in 1..Len(pat) : pat[j] = "." \/ Lower(pat[j]) = Lower(s[i + j])

-----------------------------------------------------------------------------
(* Category labels                                                         *)

CANYIN == <<"can", "yin">>             \* dining
JIAOTONG == <<"jiao", "tong">>         \* transport
GOUWU == <<"gou", "wu">>               \* shopping
SHENGHUOJIAOFEI == <<"sheng", "huo", "jiao2", "fei">>
YULE == <<"yu3", "le">>                \* entertainment
QITA == <<"qi", "ta">>                 \* the bulk path's default label
SHOURU == <<"shou", "ru">>             \* income
NoCategory == <<>>                     \* the frame has no category column

-----------------------------------------------------------------------------
(* data_loader.py                                                          *)

ErrResult(kind) == [ok |-> FALSE, err |-> kind, df |-> <<>>]
OkResult(df) == [ok |-> TRUE, err |-> "", df |-> df]

\* load_csv: the file must exist, be readable as a table, and carry the three
\* mapped columns.  file.columns names the logical columns the header has
\* under the column mapping in force.
load_csv(file) ==
    IF ~file.exists THEN ErrResult("FileNotFoundError")
    ELSE IF ~file.readable THEN ErrResult("ValueError")
    ELSE IF ~({"date", "amount", "description"} \subseteq file.columns)
         THEN ErrResult("ValueError")
    ELSE OkResult(file.rows)

preprocess_row(r) ==
    [date |-> r.date, hour |-> r.hour, amount |-> r.amount,
     description |-> r.description,
     is_income |-> r.amount > 0,
     expense_amount |-> IF r.amount < 0 THEN Abs(r.amount) ELSE 0,
     income_amount |-> IF r.amount > 0 THEN r.amount ELSE 0,
     category |-> NoCategory]

\* preprocess_data: any unparseable date or amount fails the whole table.
preprocess_data(raw) ==
    IF \E i \in 1..Len(raw) : ~raw[i].dateOk THEN ErrResult("ValueError")
    ELSE IF \E i \in 1..Len(raw) : ~raw[i].amountOk THEN ErrResult("ValueError")
    ELSE OkResult([columns |-> {"date", "hour", "amount", "description",
                                "is_income", "expense_amount", "income_amount"},
                   rows |-> [i \in 1..Len(raw) |-> preprocess_row(raw[i])]])

-----------------------------------------------------------------------------
(* categorizer.py                                                          *)

\* The income rule applied without looking at the row's is_income flag.
apply_keyword_any_row(cat, row, category, keyword) ==
    IF category = SHOURU
    THEN IF RegexSearch(keyword, row.description) THEN category ELSE cat
    ELSE IF RegexSearch(keyword, row.description) /\ ~row.is_income /\ cat = QITA
         THEN category ELSE cat

\* One keyword of one rule applied to one row (the two df.loc assignments).
apply_keyword(cat, row, category, keyword) ==
    IF category = SHOURU
    THEN IF RegexSearch(keyword, row.description) /\ row.is_income
         THEN category ELSE cat
    ELSE IF RegexSearch(keyword, row.description) /\ ~row.is_income /\ cat = QITA
         THEN category ELSE cat

RECURSIVE apply_keywords(_, _, _, _)
apply_keywords(cat, row, category, keywords) ==
    IF keywords = <<>> THEN cat
    ELSE apply_keywords(apply_keyword(cat, row, category, Head(keywords)),
                        row, category, Tail(keywords))

RECURSIVE apply_rules(_, _, _)
apply_rules(cat, row, rules) ==
    IF rules = <<>> THEN cat
    ELSE apply_rules(apply_keywords(cat, row, Head(rules).category, Head(rules).keywords),
                     row, Tail(rules))

\* The category apply_category leaves on a row: default first, then every
\* rule in iteration order.
row_category(row, rules) == apply_rules(QITA, row, rules)

RulesValid(rules) ==
    \A i \in 1..Len(rules) :
        \A k \in 1..Len(rules[i].keywords) : RegexValid(rules[i].keywords[k])

\* apply_category: str.contains compiles each keyword as a regular
\* expression, so an invalid keyword raises (re.error) whatever the rows are.
apply_category(df, rules) ==
    IF ~RulesValid(rules) THEN ErrResult("re.error")
    ELSE OkResult([columns |-> df.columns \cup {"category"},
                   rows |-> [i \in 1..Len(df.rows) |->
                               [df.rows[i] EXCEPT !.category = row_category(df.rows[i], rules)]]])

-----------------------------------------------------------------------------
(* analyzer.py                                                             *)

\* A float that may be NaN (pandas' max() of an empty selection).
NaN == [nan |-> TRUE, v |-> 0]
Num(n) == [nan |-> FALSE, v |-> n]

IncomeRows(rows) == SelectSeq(rows, LAMBDA r : r.is_income)
ExpenseRows(rows) == SelectSeq(rows, LAMBDA r : ~r.is_income)
RowsOfCategory(rows, c) == SelectSeq(rows, LAMBDA r : r.category = c)

\* expense_df.groupby('category')['amount'].sum().abs().to_dict()
category_expenses_of(expense_rows) ==
    [c \in {expense_rows[i].category : i \in 1..Len(expense_rows)} |->
        Abs(SumSeq(Amounts(RowsOfCategory(expense_rows, c))))]

\* Percentages computed whatever the total is.
category_percentages_unguarded(category_expenses, total_expense) ==
    [c \in DOMAIN category_expenses |->
        [num |-> category_expenses[c] * 100, den |-> total_expense]]

\* A percentage is kept exact, as the fraction num / den.
category_percentages_of(category_expenses, total_expense) ==
    IF total_expense > 0
    THEN [c \in DOMAIN category_expenses |->
            [num |-> category_expenses[c] * 100, den |-> total_expense]]
    ELSE <<>>

\* The greatest amount taken for the largest expense.
largest_expense_by_max(expense_df) ==
    IF expense_df # <<>> THEN SetMax(Range(Amounts(expense_df))) ELSE 0

\* expense_df['amount'].min(): the most negative amount.
largest_expense_of(expense_df) ==
    IF expense_df # <<>> THEN SetMin(Range(Amounts(expense_df))) ELSE 0

\* The smallest expense taken without the test for an empty expense frame.
smallest_expense_unguarded(expense_df) ==
    LET nonzero == SelectSeq(expense_df, LAMBDA r : r.amount # 0)
    IN  IF nonzero # <<>> THEN Num(SetMax(Range(Amounts(nonzero)))) ELSE NaN

\* expense_df[expense_df['amount'] != 0]['amount'].max(): NaN when every
\* expense is exactly zero.
smallest_expense_of(expense_df) ==
    LET nonzero == SelectSeq(expense_df, LAMBDA r : r.amount # 0)
    IN  IF expense_df # <<>>
        THEN IF nonzero # <<>> THEN Num(SetMax(Range(Amounts(nonzero)))) ELSE NaN
        ELSE Num(0)

largest_income_of(income_df) ==
    IF income_df # <<>> THEN SetMax(Range(Amounts(income_df))) ELSE 0

analyze_statements(df) ==
    LET income_df == IncomeRows(df.rows)
        expense_df == ExpenseRows(df.rows)
        total_income == SumSeq(Amounts(income_df))
        total_expense == SumSeq(Amounts(expense_df))
        category_expenses == category_expenses_of(expense_df)
    IN  [total_income |-> total_income,
         total_expense |-> Abs(total_expense),
         net_balance |-> total_income + total_expense,
         category_expenses |-> category_expenses,
         category_expense_percentages |->
             category_percentages_of(category_expenses, Abs(total_expense)),
         largest_expense |-> largest_expense_of(expense_df),
         smallest_expense |-> smallest_expense_of(expense_df),
         largest_income |-> largest_income_of(income_df)]

\* Labels in code-point order: the order groupby leaves the dict in.
LabelOrder ==
    <<<<"Food">>, <<"Income">>, <<"Transport">>,
      JIAOTONG, QITA, YULE, SHOURU, SHENGHUOJIAOFEI, GOUWU, CANYIN>>

DictOrder(d) == SelectSeq(LabelOrder, LAMBDA c : c \in DOMAIN d)

\* sorted(items, key=amount, reverse=True): stable, greatest amount first.
RECURSIVE SortedByAmount(_, _)
SortedByAmount(labels, d) ==
    IF labels = <<>> THEN <<>>
    ELSE LET top == SetMax({d[labels[i]] : i \in 1..Len(labels)})
             k == SetMin({i \in 1..Len(labels) : d[labels[i]] = top})
         IN  <<labels[k]>> \o
             SortedByAmount([i \in 1..(Len(labels) - 1) |->
                                IF i < k THEN labels[i] ELSE labels[i + 1]], d)

AbsNum(x) == IF x.nan THEN NaN ELSE Num(Abs(x.v))

\* generate_report: the rendered lines, each figure as it is printed.
generate_report(analysis_result) ==
    LET ce == analysis_result.category_expenses
        pct == analysis_result.category_expense_percentages
        sorted_categories == SortedByAmount(DictOrder(ce), ce)
    IN  [total_income |-> analysis_result.total_income,
         total_expense |-> analysis_result.total_expense,
         net_balance |-> analysis_result.net_balance,
         category_lines |->
             [i \in 1..Len(sorted_categories) |->
                 [category |-> sorted_categories[i],
                  amount |-> ce[sorted_categories[i]],
                  percentage |->
                      IF sorted_categories[i] \in DOMAIN pct
                      THEN pct[sorted_categories[i]] ELSE [num |-> 0, den |-> 1]]],
         no_expense_data |-> (DOMAIN ce = {}),
         largest_expense |-> Abs(analysis_result.largest_expense),
         smallest_expense |-> AbsNum(analysis_result.smallest_expense),
         largest_income |-> analysis_result.largest_income]

-----------------------------------------------------------------------------
(* adviser.py                                                              *)

\* The savings check with 'at or below' in place of 'below'.
generate_advice_at_or_below(analysis_result, advice_rules) ==
    LET total_income == analysis_result.total_income
        net_balance == analysis_result.net_balance
        pct == analysis_result.category_expense_percentages
        dining ==
            IF CANYIN \in DOMAIN pct
                 /\ pct[CANYIN].num > advice_rules.high_dining_threshold * pct[CANYIN].den
            THEN <<"high_dining">> ELSE <<>>
        saving ==
            IF total_income > 0
            THEN IF net_balance * 100 <= advice_rules.low_saving_threshold * total_income
                 THEN <<"low_saving">> ELSE <<>>
            ELSE IF net_balance < 0 THEN <<"no_income">> ELSE <<>>
        advice_messages == dining \o saving
    IN  IF advice_messages = <<>> THEN <<"healthy">> ELSE advice_messages

\* The general message appended whatever the two checks found.
generate_advice_always_general(analysis_result, advice_rules) ==
    LET total_income == analysis_result.total_income
        net_balance == analysis_result.net_balance
        pct == analysis_result.category_expense_percentages
        dining ==
            IF CANYIN \in DOMAIN pct
                 /\ pct[CANYIN].num > advice_rules.high_dining_threshold * pct[CANYIN].den
            THEN <<"high_dining">> ELSE <<>>
        saving ==
            IF total_income > 0
            THEN IF net_balance * 100 < advice_rules.low_saving_threshold * total_income
                 THEN <<"low_saving">> ELSE <<>>
            ELSE IF net_balance < 0 THEN <<"no_income">> ELSE <<>>
    IN  dining \o saving \o <<"healthy">>

\* Thresholds are percentages (0.20 is 20).
generate_advice(analysis_result, advice_rules) ==
    LET total_income == analysis_result.total_income
        net_balance == analysis_result.net_balance
        pct == analysis_result.category_expense_percentages
        dining ==
            IF CANYIN \in DOMAIN pct
                 /\ pct[CANYIN].num > advice_rules.high_dining_threshold * pct[CANYIN].den
            THEN <<"high_dining">> ELSE <<>>
        saving ==
            IF total_income > 0
            THEN IF net_balance * 100 < advice_rules.low_saving_threshold * total_income
                 THEN <<"low_saving">> ELSE <<>>
            ELSE IF net_balance < 0 THEN <<"no_income">> ELSE <<>>
        advice_messages == dining \o saving
    IN  IF advice_messages = <<>> THEN <<"healthy">> ELSE advice_messages

-----------------------------------------------------------------------------
(* Calendar: datetime and timedelta arithmetic.  Day ordinal 0 is          *)
(* 2023-01-01; an instant counts half hours, so that 23:59:59.999999 lies  *)
(* after every whole hour of its day and before the next day.              *)

CalendarYears == 2022..2024

IsLeap(y) == (y % 4 = 0 /\ y % 100 # 0) \/ y % 400 = 0

DaysInYear(y) == IF IsLeap(y) THEN 366 ELSE 365

DaysInMonth(y, m) ==
    IF m = 2 THEN (IF IsLeap(y) THEN 29 ELSE 28)
    ELSE IF m \in {4, 6, 9, 11} THEN 30 ELSE 31

RECURSIVE DaysBeforeYear(_)
DaysBeforeYear(y) ==
    IF y = 2023 THEN 0
    ELSE IF y > 2023 THEN DaysBeforeYear(y - 1) + DaysInYear(y - 1)
    ELSE DaysBeforeYear(y + 1) - DaysInYear(y)

RECURSIVE DaysBeforeMonth(_, _)
DaysBeforeMonth(y, m) ==
    IF m = 1 THEN 0 ELSE DaysBeforeMonth(y, m - 1) + DaysInMonth(y, m - 1)

\* datetime(y, m, d) raises ValueError unless the date exists.
DateValid(y, m, d) == y >= 1 /\ m \in 1..12 /\ d >= 1 /\ d <= DaysInMonth(y, m)

Ordinal(y, m, d) == DaysBeforeYear(y) + DaysBeforeMonth(y, m) + d - 1

YearOf(ord) ==
    CHOOSE y \in CalendarYears : DaysBeforeYear(y) <= ord /\ ord < DaysBeforeYear(y + 1)

MonthOf(ord) ==
    LET y == YearOf(ord)
    IN  CHOOSE m \in 1..12 :
            /\ Ordinal(y, m, 1) <= ord
            /\ ord < Ordinal(y, m, 1) + DaysInMonth(y, m)

DayOf(ord) == ord - Ordinal(YearOf(ord), MonthOf(ord), 1) + 1

\* date.weekday(): Monday is 0.  2023-01-01 was a Sunday.
Weekday(ord) == (ord + 6 + 7 * 100) % 7

Instant(date, hour) == date * 48 + hour * 2
StartOfDay(date) == date * 48
EndOfDay(date) == date * 48 + 47

-----------------------------------------------------------------------------
(* utils.py                                                                *)

JINTIAN == <<"jin", "tian">>                  \* today
ZUOTIAN == <<"zuo", "tian">>                  \* yesterday
SHANGZHOU == <<"shang", "zhou">>              \* last week
GUOQUYIZHOU == <<"guo", "qu", "yi", "zhou">>  \* the past week
BENZHOU == <<"ben", "zhou">>                  \* this week
SHANGYUE == <<"shang", "yue">>                \* last month
GUOQUYIYUE == <<"guo", "qu", "yi", "yue">>    \* the past month
BENYUE == <<"ben", "yue">>                    \* this month

\* A week that starts on Sunday.
start_of_this_week_from_sunday(today) == today - ((Weekday(today) + 1) % 7)

\* today - timedelta(days=today.weekday()): the Monday of today's week.
start_of_this_week(today) == today - Weekday(today)

\* now = [date |-> day ordinal, hour |-> hour of the day]
get_date_range_from_query(query, now) ==
    LET query_lower == LowerStr(query)
        today == now.date
        end_of_last_week == start_of_this_week(today) - 1
        start_of_last_week == end_of_last_week - 6
        first_day_of_this_month == today - (DayOf(today) - 1)
        last_day_of_last_month == first_day_of_this_month - 1
        first_day_of_last_month == last_day_of_last_month - (DayOf(last_day_of_last_month) - 1)
        next_month == (today - DayOf(today) + 28) + 4
        Range2(a, b) == [start |-> a, end |-> b, start_date |-> a \div 48, end_date |-> b \div 48]
    IN  IF Contains(JINTIAN, query_lower)
        THEN Range2(StartOfDay(today), EndOfDay(today))
        ELSE IF Contains(ZUOTIAN, query_lower)
        THEN Range2(StartOfDay(today - 1), EndOfDay(today - 1))
        ELSE IF Contains(SHANGZHOU, query_lower) \/ Contains(GUOQUYIZHOU, query_lower)
        THEN Range2(StartOfDay(start_of_last_week), EndOfDay(end_of_last_week))
        ELSE IF Contains(BENZHOU, query_lower)
        THEN Range2(StartOfDay(start_of_this_week(today)), EndOfDay(today + (6 - Weekday(today))))
        ELSE IF Contains(SHANGYUE, query_lower) \/ Contains(GUOQUYIYUE, query_lower)
        THEN Range2(StartOfDay(first_day_of_last_month), EndOfDay(last_day_of_last_month))
        ELSE IF Contains(BENYUE, query_lower)
        THEN Range2(StartOfDay(first_day_of_this_month),
                    EndOfDay(next_month - DayOf(next_month)))
        ELSE Range2(Instant(today - 30, now.hour), Instant(today, now.hour))

Digits == {"0", "1", "2", "3", "4", "5", "6", "7", "8", "9"}

DigitVal(c) ==
    CASE c = "0" -> 0 [] c = "1" -> 1 [] c = "2" -> 2 [] c = "3" -> 3 [] c = "4" -> 4
      [] c = "5" -> 5 [] c = "6" -> 6 [] c = "7" -> 7 [] c = "8" -> 8 [] c = "9" -> 9

At(s, p) == IF p >= 1 /\ p <= Len(s) THEN s[p] ELSE ""

RECURSIVE IntOf(_, _, _)
IntOf(s, p, n) == IF n = 0 THEN 0 ELSE IntOf(s, p, n - 1) * 10 + DigitVal(s[p + n - 1])

\* \d{1,2} at position p followed by one of `after`: the number of digits
\* it takes (2 before 1, as the greedy quantifier tries them), 0 for no match.
Digits12(s, p, after) ==
    IF At(s, p) \in Digits /\ At(s, p + 1) \in Digits /\ At(s, p + 2) \in after THEN 2
    ELSE IF At(s, p) \in Digits /\ At(s, p + 1) \in after THEN 1
    ELSE 0

\* \d{1,2} at position p ending the pattern: greedy.
Digits12End(s, p) ==
    IF At(s, p) \in Digits /\ At(s, p + 1) \in Digits THEN 2
    ELSE IF At(s, p) \in Digits THEN 1
    ELSE 0

Digits4(s, p, after) ==
    /\ \A k \in 0..3 : At(s, p + k) \in Digits
    /\ At(s, p + 4) \in after

NoDate == [found |-> FALSE, valid |-> FALSE, date |-> 0]

MakeDate(y, m, d) ==
    IF DateValid(y, m, d)
    THEN [found |-> TRUE, valid |-> TRUE, date |-> Ordinal(y, m, d)]
    ELSE [found |-> TRUE, valid |-> FALSE, date |-> 0]

\* (\d{4})<sep1>(\d{1,2})<sep2>(\d{1,2})<last>, matched at start p.  With
\* last = {} the pattern ends with the day's digits.
FullDateAt(s, p, sep1, sep2, last) ==
    LET ml == Digits12(s, p + 5, {sep2})
        dl == IF last = {} THEN Digits12End(s, p + 5 + ml + 1)
              ELSE Digits12(s, p + 5 + ml + 1, last)
    IN  Digits4(s, p, {sep1}) /\ ml > 0 /\ dl > 0

FullDateValue(s, p, sep2, last) ==
    LET ml == Digits12(s, p + 5, {sep2})
        dl == IF last = {} THEN Digits12End(s, p + 5 + ml + 1)
              ELSE Digits12(s, p + 5 + ml + 1, last)
    IN  MakeDate(IntOf(s, p, 4), IntOf(s, p + 5, ml), IntOf(s, p + 5 + ml + 1, dl))

\* (\d{1,2})yue(\d{1,2})hao, matched at start p.
MonthDayAt(s, p) ==
    LET ml == Digits12(s, p, {"yue"})
    IN  ml > 0 /\ Digits12(s, p + ml + 1, {"hao"}) > 0

MonthDayValue(s, p, year) ==
    LET ml == Digits12(s, p, {"yue"})
        dl == Digits12(s, p + ml + 1, {"hao"})
    IN  MakeDate(year, IntOf(s, p, ml), IntOf(s, p + ml + 1, dl))

\* extract_date_from_query: the three patterns in priority order, each at
\* its leftmost match.  valid = FALSE: datetime() raised ValueError.
extract_date_from_query(query, now) ==
    LET P1 == {p \in 1..Len(query) : FullDateAt(query, p, "nian", "yue", {"hao"})}
        P2 == {p \in 1..Len(query) : FullDateAt(query, p, "-", "-", {})}
        P3 == {p \in 1..Len(query) : MonthDayAt(query, p)}
    IN  IF P1 # {} THEN FullDateValue(query, SetMin(P1), "yue", {"hao"})
        ELSE IF P2 # {} THEN FullDateValue(query, SetMin(P2), "-", {})
        ELSE IF P3 # {} THEN MonthDayValue(query, SetMin(P3), YearOf(now.date))
        ELSE NoDate

-----------------------------------------------------------------------------
(* question_answering.py                                                   *)

ZHICHU == <<"zhi", "chu">>                     \* "expense"
ZONGZHICHU == <<"zong", "zhi", "chu">>         \* "total expense"
YIGONGHUA == <<"yi", "gong", "hua", "le", "duo", "shao", "qian">>
ZONGSHOURU == <<"zong", "shou", "ru">>         \* "total income"
YIGONGZHUAN == <<"yi", "gong", "zhuan", "le", "duo", "shao", "qian">>
JINGJIEYU == <<"jing", "jie", "yu2">>          \* "net balance"
HAISHENG == <<"hai", "sheng2", "duo", "shao", "qian">>
HUALEDUOSHAOQIAN == <<"hua", "le", "duo", "shao", "qian">>
ZHUANLEDUOSHAOQIAN == <<"zhuan", "le", "duo", "shao", "qian">>
HUAQIANZUIDUO == <<"hua", "qian", "zui", "duo", "de", "di", "fang">>
ZUOLESHENME == <<"zuo2", "le", "shen", "me">>  \* "what did I do"
HUODONG == <<"huo", "dong">>                   \* "activity"

\* The category names answer_query knows, in the order it tries them.
QueryCategories == <<CANYIN, JIAOTONG, GOUWU, SHENGHUOJIAOFEI, YULE, QITA>>

SpentOn(category) == <<"zai">> \o category \o <<"shang2", "hua", "le", "duo", "shao">>

\* What a call hands back: a value, or the exception it raised.
Returned(v) == [raised |-> FALSE, error |-> "", value |-> v]
Raised(e) == [raised |-> TRUE, error |-> e, value |-> <<>>]

Answer(kind, label, value, from, to, items) ==
    [kind |-> kind, label |-> label, value |-> value,
     from |-> from, to |-> to, items |-> items]

CategoryExpenseAnswer(df, category) ==
    IF "category" \notin df.columns THEN Raised("KeyError")
    ELSE Returned(Answer("category_expense", category,
            Abs(SumSeq(Amounts(SelectSeq(df.rows,
                LAMBDA r : r.category = category /\ ~r.is_income)))), 0, 0, <<>>))

CategoryIncomeAnswer(df, category) ==
    IF "category" \notin df.columns THEN Raised("KeyError")
    ELSE Returned(Answer("category_income", category,
            SumSeq(Amounts(SelectSeq(df.rows,
                LAMBDA r : r.category = category /\ r.is_income))), 0, 0, <<>>))

\* The for loop over the known categories, from index i on: the first
\* category with a matching phrase answers.
RECURSIVE category_queries(_, _, _)
category_queries(df, query_lower, i) ==
    IF i > Len(QueryCategories) THEN [matched |-> FALSE, result |-> Raised("")]
    ELSE LET category == QueryCategories[i]
         IN  IF Contains(category \o ZHICHU, query_lower)
                  \/ Contains(SpentOn(category), query_lower)
             THEN [matched |-> TRUE, result |-> CategoryExpenseAnswer(df, category)]
             ELSE IF Contains(category \o SHOURU, query_lower)
             THEN [matched |-> TRUE, result |-> CategoryIncomeAnswer(df, category)]
             ELSE category_queries(df, query_lower, i + 1)

\* groupby('category')['amount'].sum().abs().idxmax(): the first label, in
\* groupby order, with the greatest sum.
most_expensive_category(expense_rows) ==
    LET ce == category_expenses_of(expense_rows)
        labels == DictOrder(ce)
        top == SetMax({ce[labels[i]] : i \in 1..Len(labels)})
    IN  labels[SetMin({i \in 1..Len(labels) : ce[labels[i]] = top})]

\* The day's rows taken from the rows of the time range.
daily_transactions_in_range(df, filtered, specific_date) ==
    SelectSeq(filtered, LAMBDA r : r.date = specific_date.date)

\* daily_transactions = df[df['date'].dt.date == specific_date.date()]: the
\* day's rows of the whole frame, not of filtered_df.
daily_transactions(df, filtered, specific_date) ==
    SelectSeq(df.rows, LAMBDA r : r.date = specific_date.date)

time_queries(df, query, query_lower, now) ==
    LET range == get_date_range_from_query(query, now)
        filtered == SelectSeq(df.rows,
            LAMBDA r : Instant(r.date, r.hour) >= range.start
                       /\ Instant(r.date, r.hour) <= range.end)
        expense_in_range == ExpenseRows(filtered)
        specific_date == extract_date_from_query(query, now)
        daily == daily_transactions(df, filtered, specific_date)
    IN  IF Contains(HUALEDUOSHAOQIAN, query_lower) \/ Contains(ZHICHU, query_lower)
        THEN Returned(Answer("time_expense", <<>>,
                 Abs(SumSeq(Amounts(expense_in_range))),
                 range.start_date, range.end_date, <<>>))
        ELSE IF Contains(ZHUANLEDUOSHAOQIAN, query_lower) \/ Contains(SHOURU, query_lower)
        THEN Returned(Answer("time_income", <<>>,
                 SumSeq(Amounts(IncomeRows(filtered))),
                 range.start_date, range.end_date, <<>>))
        ELSE IF Contains(HUAQIANZUIDUO, query_lower)
        THEN IF expense_in_range # <<>>
             THEN IF "category" \notin df.columns THEN Raised("KeyError")
                  ELSE Returned(Answer("most_expensive", most_expensive_category(expense_in_range),
                           0, range.start_date, range.end_date, <<>>))
             ELSE Returned(Answer("no_expense_in_range", <<>>, 0,
                      range.start_date, range.end_date, <<>>))
        ELSE IF Contains(ZUOLESHENME, query_lower) \/ Contains(HUODONG, query_lower)
        THEN IF ~specific_date.found
             THEN Returned(Answer("need_date", <<>>, 0, 0, 0, <<>>))
             ELSE IF ~specific_date.valid THEN Raised("ValueError")
             ELSE IF daily # <<>>
             THEN Returned(Answer("activity", <<>>, 0, specific_date.date, specific_date.date,
                      [i \in 1..Len(daily) |->
                          [hour |-> daily[i].hour, description |-> daily[i].description,
                           amount |-> daily[i].amount]]))
             ELSE Returned(Answer("no_activity", <<>>, 0,
                      specific_date.date, specific_date.date, <<>>))
        ELSE Returned(Answer("not_understood", <<>>, 0, 0, 0, <<>>))

\* The total read back with the sign the amounts carry.
total_expense_answer_signed(df) ==
    Returned(Answer("total_expense", <<>>, SumSeq(Amounts(ExpenseRows(df.rows))), 0, 0, <<>>))

\* total_expense = df[~df['is_income']]['amount'].sum(), reported as abs().
total_expense_answer(df) ==
    Returned(Answer("total_expense", <<>>, Abs(SumSeq(Amounts(ExpenseRows(df.rows)))), 0, 0, <<>>))

\* The cascade with its first two checks in the other order.
answer_query_income_first(df, query, now) ==
    LET query_lower == LowerStr(query)
        by_category == category_queries(df, query_lower, 1)
    IN  IF Contains(ZONGSHOURU, query_lower) \/ Contains(YIGONGZHUAN, query_lower)
        THEN Returned(Answer("total_income", <<>>,
                 SumSeq(Amounts(IncomeRows(df.rows))), 0, 0, <<>>))
        ELSE IF Contains(ZONGZHICHU, query_lower) \/ Contains(YIGONGHUA, query_lower)
        THEN total_expense_answer(df)
        ELSE IF Contains(JINGJIEYU, query_lower) \/ Contains(HAISHENG, query_lower)
        THEN Returned(Answer("net_balance", <<>>, SumSeq(Amounts(df.rows)), 0, 0, <<>>))
        ELSE IF by_category.matched THEN by_category.result
        ELSE time_queries(df, query, query_lower, now)

answer_query(df, query, now) ==
    LET query_lower == LowerStr(query)
        by_category == category_queries(df, query_lower, 1)
    IN  IF Contains(ZONGZHICHU, query_lower) \/ Contains(YIGONGHUA, query_lower)
        THEN total_expense_answer(df)
        ELSE IF Contains(ZONGSHOURU, query_lower) \/ Contains(YIGONGZHUAN, query_lower)
        THEN Returned(Answer("total_income", <<>>,
                 SumSeq(Amounts(IncomeRows(df.rows))), 0, 0, <<>>))
        ELSE IF Contains(JINGJIEYU, query_lower) \/ Contains(HAISHENG, query_lower)
        THEN Returned(Answer("net_balance", <<>>, SumSeq(Amounts(df.rows)), 0, 0, <<>>))
        ELSE IF by_category.matched THEN by_category.result
        ELSE time_queries(df, query, query_lower, now)


\* Descriptions of the statements below, in code-point order.
KTV == <<"K", "T", "V">>
GYM == <<"jian", "shen">>
BUS == <<"gong", "jiao">>
LUNCH == <<"wu3", "can">>
SALARY == <<"gong1", "zi">>
DescriptionOrder == <<KTV, GYM, BUS, LUNCH, SALARY>>

Count(values, v) == Cardinality({i \in 1..Len(values) : values[i] = v})

\* Series.mode().iloc[0]: the most frequent value, the least in sort order
\* among equally frequent ones.
Mode(values, order) ==
    LET present == SelectSeq(order, LAMBDA v : v \in Range(values))
        top == SetMax({Count(values, present[i]) : i \in 1..Len(present)})
    IN  present[SetMin({i \in 1..Len(present) : Count(values, present[i]) = top})]

Prediction(kind, hour, category, description, spending, remark) ==
    [kind |-> kind, hour |-> hour, category |-> category,
     description |-> description, spending |-> spending, remark |-> remark]

\* predict_activity with a window that wraps around midnight.
predict_for_hour_around_midnight(df, target_hour) ==
    LET window == SelectSeq(df.rows,
            LAMBDA r : (r.hour - target_hour + 1) % 24 <= 2)
        category == Mode([i \in 1..Len(window) |-> window[i].category], LabelOrder)
        description == Mode([i \in 1..Len(window) |-> window[i].description], DescriptionOrder)
        spending == SumSeq(Amounts(ExpenseRows(window)))
    IN  IF window = <<>>
        THEN Returned(Prediction("no_history", target_hour, <<>>, <<>>, 0, ""))
        ELSE IF "category" \notin df.columns THEN Raised("KeyError")
        ELSE Returned(Prediction("prediction", target_hour, category, description,
                 IF spending < 0 THEN Abs(spending) ELSE 0,
                 IF category = CANYIN THEN "dining"
                 ELSE IF category = JIAOTONG THEN "transport" ELSE ""))

\* predict_activity on a valid hour, after df['hour'] has been rewritten.
predict_for_hour(df, target_hour) ==
    LET window == SelectSeq(df.rows,
            LAMBDA r : r.hour >= target_hour - 1 /\ r.hour <= target_hour + 1)
        category == Mode([i \in 1..Len(window) |-> window[i].category], LabelOrder)
        description == Mode([i \in 1..Len(window) |-> window[i].description], DescriptionOrder)
        spending == SumSeq(Amounts(ExpenseRows(window)))
    IN  IF window = <<>>
        THEN Returned(Prediction("no_history", target_hour, <<>>, <<>>, 0, ""))
        ELSE IF "category" \notin df.columns THEN Raised("KeyError")
        ELSE Returned(Prediction("prediction", target_hour, category, description,
                 IF spending < 0 THEN Abs(spending) ELSE 0,
                 IF category = CANYIN THEN "dining"
                 ELSE IF category = JIAOTONG THEN "transport" ELSE ""))

\* int(time_str): an optional sign and then digits, a ValueError for
\* anything else.
int(time_str) ==
    LET signed == time_str # <<>> /\ time_str[1] \in {"+", "-"}
        digits == IF signed THEN Tail(time_str) ELSE time_str
    IN  IF digits = <<>> \/ \E i \in 1..Len(digits) : digits[i] \notin Digits
        THEN Raised("ValueError")
        ELSE Returned((IF signed /\ time_str[1] = "-" THEN -1 ELSE 1)
                          * IntOf(digits, 1, Len(digits)))

\* predict_activity: the two guidance messages come before df is read.
predict_activity(df, time_str) ==
    LET parsed == int(time_str)
        target_hour == parsed.value
    IN  IF parsed.raised
        THEN Returned(Prediction("not_a_number", 0, <<>>, <<>>, 0, ""))
        ELSE IF ~(0 <= target_hour /\ target_hour <= 23)
        THEN Returned(Prediction("invalid_hour", target_hour, <<>>, <<>>, 0, ""))
        ELSE predict_for_hour(df, target_hour)

\* An hour column written with a value the rows did not have.
with_hour_column_cleared(df) ==
    [columns |-> df.columns \cup {"hour"},
     rows |-> [i \in 1..Len(df.rows) |-> [df.rows[i] EXCEPT !.hour = 0]]]

\* The frame predict_activity leaves behind: df['hour'] = df['date'].dt.hour
\* is an assignment to the caller's frame.
with_hour_column(df) ==
    [columns |-> df.columns \cup {"hour"},
     rows |-> [i \in 1..Len(df.rows) |-> [df.rows[i] EXCEPT !.hour = df.rows[i].hour]]]

-----------------------------------------------------------------------------
(* config.py and core.py                                                   *)

Rule(category, keywords) == [category |-> category, keywords |-> keywords]

DEFAULT_CATEGORY_RULES ==
    <<Rule(CANYIN, <<LUNCH, <<"ka", "fei">>>>),
      Rule(JIAOTONG, <<BUS>>),
      Rule(YULE, <<<<"k", "t", "v">>>>),
      Rule(SHOURU, <<SALARY>>)>>

DEFAULT_ADVICE_RULES == [high_dining_threshold |-> 20, low_saving_threshold |-> 10]

\* dict.update: a key already present keeps its place and takes the new
\* value, a new key goes to the end.
RECURSIVE DictUpdate(_, _)
DictUpdate(base, upd) ==
    IF upd = <<>> THEN base
    ELSE LET u == Head(upd)
             hit == {i \in 1..Len(base) : base[i].category = u.category}
         IN  DictUpdate(IF hit = {} THEN Append(base, u)
                        ELSE [i \in 1..Len(base) |-> IF i \in hit THEN u ELSE base[i]],
                        Tail(upd))

NoConfig == [given |-> FALSE, category_rules |-> <<>>, advice_rules |-> <<>>]

current_category_rules(config) ==
    IF config.given THEN DictUpdate(DEFAULT_CATEGORY_RULES, config.category_rules)
    ELSE DEFAULT_CATEGORY_RULES

\* config.advice_rules is a function from some of the two keys to numbers.
current_advice_rules(config) ==
    IF config.given
    THEN [k \in DOMAIN DEFAULT_ADVICE_RULES |->
            IF k \in DOMAIN config.advice_rules THEN config.advice_rules[k]
            ELSE DEFAULT_ADVICE_RULES[k]]
    ELSE DEFAULT_ADVICE_RULES

FullReport(report, advice) == [report |-> report, advice |-> advice]

\* A cache that keeps the rows it held and adds the new ones after them.
new_cache_appending(old_cache, df) ==
    IF old_cache = <<>> THEN <<df>>
    ELSE <<[df EXCEPT !.rows = old_cache[1].rows \o df.rows]>>

\* _processed_df_cache = df.copy(): the slot is replaced by the new frame.
new_cache(old_cache, df) == <<df>>

\* The exception leaving the try block as it is.
reraise_unchanged(err) == err

\* The three except clauses: FileNotFoundError and ValueError are raised
\* again under their own type, anything else as RuntimeError.
reraise(err) ==
    IF err = "FileNotFoundError" THEN "FileNotFoundError"
    ELSE IF err = "ValueError" THEN "ValueError"
    ELSE "RuntimeError"

\* analyze_bank_statement: the new value of _processed_df_cache and what the
\* call hands back.  The cache is assigned right after preprocessing, from a
\* copy taken before the category column is added.
analyze_bank_statement(old_cache, file, config) ==
    LET loaded == load_csv(file)
        pre == preprocess_data(loaded.df)
        categorized == apply_category(pre.df, current_category_rules(config))
        analysis_result == analyze_statements(categorized.df)
        report == generate_report(analysis_result)
        advice == generate_advice(analysis_result, current_advice_rules(config))
    IN  IF ~loaded.ok
        THEN [cache |-> old_cache, result |-> Raised(reraise(loaded.err)), analysis |-> <<>>]
        ELSE IF ~pre.ok
        THEN [cache |-> old_cache, result |-> Raised(reraise(pre.err)), analysis |-> <<>>]
        ELSE IF ~categorized.ok
        THEN [cache |-> new_cache(old_cache, pre.df),
              result |-> Raised(reraise(categorized.err)), analysis |-> <<>>]
        ELSE [cache |-> new_cache(old_cache, pre.df),
              result |-> Returned(FullReport(report, advice)),
              analysis |-> <<analysis_result>>]

\* The trigger list without its last two words.
PredictionWords_first_three ==
    {<<"yu4", "ce">>, <<"tong", "chang", "hui">>, <<"jing", "chang", "hui">>}

PredictionWords ==
    {<<"yu4", "ce">>, <<"tong", "chang", "hui">>, <<"jing", "chang", "hui">>,
     <<"ke", "neng", "zuo2">>, <<"xi", "guan">>}

\* re.search(r'(\d{1,2})[dian shi]', query): the leftmost match's digits.
time_match(query) ==
    LET P == {p \in 1..Len(query) : Digits12(query, p, {"dian", "shi2"}) > 0}
        p0 == SetMin(P)
    IN  IF P = {} THEN <<>>
        ELSE SubSeq(query, p0, p0 + Digits12(query, p0, {"dian", "shi2"}) - 1)

IsPredictionQuery(query) == \E w \in PredictionWords : Contains(w, query)

\* The try block of query_bank_statement on a loaded cache.
resolve_query(df, query, now) ==
    IF IsPredictionQuery(query)
    THEN IF time_match(query) # <<>>
         THEN predict_activity(with_hour_column(df), time_match(query))
         ELSE Returned(Prediction("need_time", 0, <<>>, <<>>, 0, ""))
    ELSE answer_query(df, query, now)

\* The same call without the except clause: what the try block raises
\* reaches the caller.
query_bank_statement_uncaught(the_cache, query, now) ==
    IF the_cache = <<>>
    THEN [cache |-> the_cache, result |-> Raised("RuntimeError:NotLoaded")]
    ELSE [cache |-> the_cache, result |-> resolve_query(the_cache[1], query, now)]

\* query_bank_statement: the cache is None (<<>>) or holds one frame.  An
\* exception inside the try block comes back as the apology text.
query_bank_statement(the_cache, query, now) ==
    IF the_cache = <<>>
    THEN [cache |-> the_cache, result |-> Raised("RuntimeError:NotLoaded")]
    ELSE LET df == the_cache[1]
             r == resolve_query(df, query, now)
             predicted == IsPredictionQuery(query) /\ time_match(query) # <<>>
                          /\ LET h == IntOf(time_match(query), 1, Len(time_match(query)))
                             IN 0 <= h /\ h <= 23
         IN  [cache |-> IF predicted THEN <<with_hour_column(df)>> ELSE the_cache,
              result |-> IF r.raised
                         THEN [raised |-> FALSE, error |-> r.error,
                               value |-> Answer("apology", <<>>, 0, 0, 0, <<>>)]
                         ELSE r]

-----------------------------------------------------------------------------
(* classifier.py: ExpenseClassifier.classify                               *)

UNCATEGORIZED == <<"Uncategorized">>

\* Some keyword of the list occurs in the description when both are
\* lower-cased.
keyword_matches(description, keywords) ==
    \E k \in 1..Len(keywords) : Contains(LowerStr(keywords[k]), LowerStr(description))

\* A scan that does not stop at the first matching rule: a later matching
\* rule takes the place of an earlier one.
RECURSIVE scan_rules_last(_, _, _)
scan_rules_last(found, description, rules) ==
    IF rules = <<>> THEN found
    ELSE scan_rules_last(
             IF keyword_matches(description, Head(rules).keywords)
             THEN Head(rules).category ELSE found,
             description, Tail(rules))

classify_last_match(description, rules) ==
    IF description = <<>> THEN UNCATEGORIZED
    ELSE scan_rules_last(UNCATEGORIZED, description, rules)

\* Rules in their defined order; the first rule with a matching keyword ends
\* the iteration.
RECURSIVE scan_rules(_, _)
scan_rules(description, rules) ==
    IF rules = <<>> THEN UNCATEGORIZED
    ELSE IF keyword_matches(description, Head(rules).keywords)
         THEN Head(rules).category
         ELSE scan_rules(description, Tail(rules))

classify(description, rules) ==
    IF description = <<>> THEN UNCATEGORIZED
    ELSE scan_rules(description, rules)

-----------------------------------------------------------------------------
(* The session: loads and queries against the module-level cache           *)

MaxRows == 2

Oct(d) == Ordinal(2023, 10, d)

RawRow(date, hour, amount, description) ==
    [date |-> date, dateOk |-> TRUE, hour |-> hour,
     amount |-> amount, amountOk |-> TRUE, description |-> description]

StatementRows ==
    {RawRow(Oct(1), 10, 10, SALARY),
     RawRow(Oct(3), 12, -3, LUNCH),
     RawRow(Oct(8), 12, -2, KTV)}

AllColumns == {"date", "time", "amount", "description"}

TableFile(rows) ==
    [exists |-> TRUE, readable |-> TRUE, columns |-> AllColumns, rows |-> rows]

GoodFiles == {TableFile(rows) : rows \in SeqsUpTo(StatementRows, MaxRows)}

BadFiles ==
    {[exists |-> FALSE, readable |-> FALSE, columns |-> {}, rows |-> <<>>],
     [exists |-> TRUE, readable |-> FALSE, columns |-> {}, rows |-> <<>>],
     [exists |-> TRUE, readable |-> TRUE, columns |-> AllColumns \ {"amount"},
      rows |-> <<RawRow(Oct(3), 12, -3, LUNCH)>>],
     TableFile(<<[RawRow(Oct(3), 12, -3, LUNCH) EXCEPT !.dateOk = FALSE]>>),
     TableFile(<<RawRow(Oct(4), 13, -1, BUS),
                 [RawRow(Oct(3), 12, -3, LUNCH) EXCEPT !.amountOk = FALSE]>>)}

Files == GoodFiles \cup BadFiles

Configs ==
    {NoConfig,
     [given |-> TRUE,
      category_rules |-> <<Rule(<<"Food">>, <<LUNCH>>), Rule(<<"Transport">>, <<BUS>>),
                           Rule(<<"Income">>, <<SALARY>>)>>,
      advice_rules |-> <<>>],
     [given |-> TRUE,
      category_rules |-> <<Rule(YULE, <<<<"K", "T", "V", "(">>>>)>>,
      advice_rules |-> [high_dining_threshold |-> 50]]}

Queries ==
    {<<"wo", "de", "zong", "zhi", "chu", "shi", "duo", "shao">>,
     <<"wo", "de", "can", "yin", "zhi", "chu", "shi", "duo", "shao">>,
     <<"wo", "shang", "zhou", "hua", "le", "duo", "shao", "qian">>,
     <<"zhong", "wu3", "1", "2", "dian", "tong", "chang", "hui", "zuo2", "shen", "me">>,
     <<"wo", "xi", "guan", "zuo2", "shen", "me">>,
     <<"2", "0", "2", "3", "nian", "1", "0", "yue", "0", "3", "hao", "zuo2", "le", "shen", "me">>,
     <<"gao", "su", "wo">>,
     <<"wo", "yi", "gong", "hua", "le", "duo", "shao", "qian">>,
     <<"yu4", "ce", "wo", "de", "zong", "zhi", "chu">>,
     <<"wo", "jing", "chang", "hui", "zai", "8", "shi2", "zuo2", "shen", "me">>,
     <<"ming", "tian", "ke", "neng", "zuo2", "shen", "me">>}

Nows == {[date |-> Oct(9), hour |-> 12], [date |-> Oct(12), hour |-> 8]}

NoCall == [op |-> "none"]
NoOutcome == Returned(<<>>)
NoGood == [valid |-> FALSE, rows |-> <<>>, replaced |-> FALSE, total_expense |-> 0]

Init ==
    /\ cache = <<>>
    /\ call = NoCall
    /\ outcome = NoOutcome
    /\ everLoaded = FALSE
    /\ lastGood = NoGood

\* One call of analyze_bank_statement: it reads the cache as the call finds it.
Load(file, config) ==
    \E old_cache \in {cache} : \E r \in {analyze_bank_statement(old_cache, file, config)} :
        /\ cache' = r.cache
        /\ call' = [op |-> "load", file |-> file, config |-> config]
        /\ outcome' = r.result
        /\ everLoaded' = (everLoaded \/ ~r.result.raised)
        /\ lastGood' = IF r.result.raised THEN NoGood
                       ELSE [valid |-> TRUE, rows |-> file.rows,
                             replaced |-> cache # <<>> /\ cache[1].rows # <<>>,
                             total_expense |-> r.result.value.report.total_expense]

\* One call of query_bank_statement, made at the instant now.
Query(query, now) ==
    \E the_cache \in {cache} : \E r \in {query_bank_statement(the_cache, query, now)} :
        /\ cache' = r.cache
        /\ call' = [op |-> "query", query |-> query, now |-> now]
        /\ outcome' = r.result
        /\ UNCHANGED <<everLoaded, lastGood>>

Next ==
    \/ \E file \in Files, config \in Configs : Load(file, config)
    \/ \E query \in Queries, now \in Nows : Query(query, now)

Spec == Init /\ [][Next]_vars

-----------------------------------------------------------------------------
(* The aggregation of one table: preprocess_data, apply_category,          *)
(* analyze_statements and generate_report on rows given in memory.         *)

MaxTx == 3

LedgerRows ==
    {RawRow(Oct(1), 12, a, d) : a \in -2..2, d \in {LUNCH, BUS, GYM}}

Pending == Returned(<<>>)

AnalyzeInit ==
    /\ cache = <<>>
    /\ call \in {[op |-> "analyze_table", rows |-> rows] :
                    rows \in SeqsUpTo(LedgerRows, MaxTx)}
    /\ outcome = Pending
    /\ everLoaded = FALSE
    /\ lastGood = NoGood

AnalyzeTable ==
    /\ call.op = "analyze_table"
    /\ outcome = Pending
    /\ LET df == apply_category(preprocess_data(call.rows).df, DEFAULT_CATEGORY_RULES).df
           analysis_result == analyze_statements(df)
       IN  outcome' = Returned([df |-> df, analysis |-> analysis_result,
                                report |-> generate_report(analysis_result)])
    /\ UNCHANGED <<cache, call, everLoaded, lastGood>>

AnalyzeNext == AnalyzeTable

AnalyzeSpec == AnalyzeInit /\ [][AnalyzeNext]_vars

(* analyze_statements called directly on any frame of amounts, is_income   *)
(* flags and categories.                                                   *)

FrameRows ==
    {[date |-> Oct(1), hour |-> 12, amount |-> a, description |-> GYM,
      is_income |-> inc, expense_amount |-> 0, income_amount |-> 0, category |-> c] :
        a \in -2..2, inc \in BOOLEAN, c \in {CANYIN, QITA}}

FrameInit ==
    /\ cache = <<>>
    /\ call \in {[op |-> "analyze_statements",
                  df |-> [columns |-> {"amount", "is_income", "category"}, rows |-> rows]] :
                    rows \in SeqsUpTo(FrameRows, MaxTx)}
    /\ outcome = Pending
    /\ everLoaded = FALSE
    /\ lastGood = NoGood

AnalyzeFrame ==
    /\ call.op = "analyze_statements"
    /\ outcome = Pending
    /\ outcome' = Returned([analysis |-> analyze_statements(call.df)])
    /\ UNCHANGED <<cache, call, everLoaded, lastGood>>

FrameNext == AnalyzeFrame

FrameSpec == FrameInit /\ [][FrameNext]_vars

-----------------------------------------------------------------------------
(* Classification of one description: classify, and apply_category on a    *)
(* frame of one row, under every rule set of the bounds.                   *)

MaxRules == 2
MaxDescLen == 2

RuleCategories == {CANYIN, JIAOTONG, SHOURU}

KeywordLists ==
    {<<<<"a">>>>, <<<<"k">>, <<"b">>>>, <<<<"a", ".">>>>, <<<<"(">>>>}

Descriptions == SeqsUpTo({"a", "b", "K", "."}, MaxDescLen)

\* A rule set is a dict: its categories are distinct, its order the order
\* of insertion.
RuleSets ==
    {rules \in SeqsUpTo({Rule(c, ks) : c \in RuleCategories, ks \in KeywordLists}, MaxRules) :
        \A i, j \in 1..Len(rules) : i # j => rules[i].category # rules[j].category}

ClassifyInit ==
    /\ cache = <<>>
    /\ call \in {[op |-> "classify", description |-> d, rules |-> rules] :
                    d \in Descriptions, rules \in RuleSets}
              \cup
                {[op |-> "apply_category", rules |-> rules,
                  df |-> preprocess_data(<<RawRow(Oct(1), 12, a, d)>>).df] :
                    a \in {-1, 1}, d \in Descriptions, rules \in RuleSets}
    /\ outcome = Pending
    /\ everLoaded = FALSE
    /\ lastGood = NoGood

Classify ==
    /\ call.op = "classify"
    /\ outcome = Pending
    /\ outcome' = Returned(classify(call.description, call.rules))
    /\ UNCHANGED <<cache, call, everLoaded, lastGood>>

ApplyCategory ==
    /\ call.op = "apply_category"
    /\ outcome = Pending
    /\ \E r \in {apply_category(call.df, call.rules)} :
          outcome' = IF r.ok THEN Returned(r.df) ELSE Raised(r.err)
    /\ UNCHANGED <<cache, call, everLoaded, lastGood>>

ClassifyNext == Classify \/ ApplyCategory

ClassifySpec == ClassifyInit /\ [][ClassifyNext]_vars

-----------------------------------------------------------------------------
(* answer_query called directly: on frames with and without the category   *)
(* column, on queries put together from the phrases it looks for, and on   *)
(* last-week and activity queries asked on every day of a few weeks.       *)

MaxPhrases == 2
MaxWeeks == 2

Dec(d) == Ordinal(2023, 12, d)

\* Amounts are distinct powers of two: a sum tells which rows went into it.
OctoberRows ==
    <<RawRow(Oct(1), 23, -1, LUNCH), RawRow(Oct(2), 0, -2, BUS),
      RawRow(Oct(5), 12, 16, SALARY), RawRow(Oct(8), 23, -4, KTV),
      RawRow(Oct(9), 0, -8, GYM)>>

NewYearRows ==
    <<RawRow(Dec(24), 23, -1, LUNCH), RawRow(Dec(25), 0, -2, BUS),
      RawRow(Dec(31), 23, -4, LUNCH), RawRow(Dec(31) + 1, 0, -8, BUS)>>

Preprocessed(rows) == preprocess_data(rows).df

Categorized(rows) == apply_category(Preprocessed(rows), DEFAULT_CATEGORY_RULES).df

AnswerFrames ==
    {Preprocessed(OctoberRows), Categorized(OctoberRows),
     Categorized(NewYearRows), Categorized(<<>>)}

Filler == <<"gao", "su", "wo">>
MonthDayPhrase == <<"1", "0", "yue", "0", "8", "hao">>

Phrases ==
    {ZONGZHICHU, YIGONGHUA, ZONGSHOURU, JINGJIEYU, HAISHENG,
     CANYIN \o ZHICHU, JIAOTONG \o SHOURU, SpentOn(YULE),
     SHANGZHOU, HUALEDUOSHAOQIAN, ZHUANLEDUOSHAOQIAN, HUAQIANZUIDUO,
     ZUOLESHENME, MonthDayPhrase, Filler}

RECURSIVE Concat(_)
Concat(ss) == IF ss = <<>> THEN <<>> ELSE Head(ss) \o Concat(Tail(ss))

CascadeQueries == {Concat(ps) : ps \in SeqsUpTo(Phrases, MaxPhrases)}

\* Every day of MaxWeeks weeks from a Monday on, at the first and the last
\* hour of the day.
NowsFrom(monday) ==
    {[date |-> monday + k, hour |-> h] : k \in 0..(7 * MaxWeeks - 1), h \in {0, 23}}

LastWeekNows == NowsFrom(Oct(2)) \cup NowsFrom(Dec(25))

LastWeekQueries ==
    {<<"wo">> \o SHANGZHOU \o HUALEDUOSHAOQIAN,
     GUOQUYIZHOU \o <<"de">> \o ZHICHU,
     <<"wo">> \o SHANGZHOU \o <<"de">> \o ZHICHU}

TwoDigits(n) ==
    LET d == <<"0", "1", "2", "3", "4", "5", "6", "7", "8", "9">>
    IN  <<d[(n \div 10) + 1], d[(n % 10) + 1]>>

\* The three ways a query can write a date, and the date it names; a
\* month-and-day date is of the year the query is asked in.
DatePhrase(style, m, d) ==
    CASE style = "nian" -> <<"2", "0", "2", "3", "nian">> \o TwoDigits(m) \o <<"yue">>
                               \o TwoDigits(d) \o <<"hao">>
      [] style = "dash" -> <<"2", "0", "2", "3", "-">> \o TwoDigits(m) \o <<"-">> \o TwoDigits(d)
      [] style = "yue"  -> TwoDigits(m) \o <<"yue">> \o TwoDigits(d) \o <<"hao">>
      [] style = "none" -> <<>>

ActivityCalls ==
    {[op |-> "answer_query", family |-> "activity", df |-> df, now |-> now,
      query |-> prefix \o DatePhrase(style, md[1], md[2]) \o word,
      named |-> [style |-> style, month |-> md[1], day |-> md[2]]] :
        df \in {Preprocessed(OctoberRows), Categorized(NewYearRows)},
        now \in {[date |-> Oct(9), hour |-> 12], [date |-> Dec(31) + 2, hour |-> 8]},
        prefix \in {<<"wo">>, SHANGZHOU, JINTIAN},
        style \in {"nian", "dash", "yue", "none"},
        md \in {<<10, 8>>, <<10, 9>>, <<10, 3>>, <<12, 31>>, <<13, 40>>},
        word \in {ZUOLESHENME, HUODONG}}

NoDateNamed == [style |-> "none", month |-> 0, day |-> 0]

AnswerInit ==
    /\ cache = <<>>
    /\ call \in {[op |-> "answer_query", family |-> "cascade", df |-> df, now |-> now,
                   query |-> query, named |-> NoDateNamed] :
                    df \in AnswerFrames, now \in {[date |-> Oct(9), hour |-> 12]},
                    query \in CascadeQueries}
              \cup
                {[op |-> "answer_query", family |-> "last_week", df |-> df, now |-> now,
                  query |-> query, named |-> NoDateNamed] :
                    df \in AnswerFrames, now \in LastWeekNows, query \in LastWeekQueries}
              \cup ActivityCalls
    /\ outcome = Pending
    /\ everLoaded = FALSE
    /\ lastGood = NoGood

AnswerQuery ==
    /\ call.op = "answer_query"
    /\ outcome = Pending
    /\ \E r \in {answer_query(call.df, call.query, call.now)} : outcome' = r
    /\ UNCHANGED <<cache, call, everLoaded, lastGood>>

AnswerNext == AnswerQuery

AnswerSpec == AnswerInit /\ [][AnswerNext]_vars

-----------------------------------------------------------------------------
(* generate_advice called on the analysis of any small categorized table,  *)
(* under several pairs of thresholds.                                      *)

AdviceRows ==
    {[date |-> Oct(1), hour |-> 12, amount |-> a, description |-> LUNCH,
      is_income |-> a > 0, expense_amount |-> 0, income_amount |-> 0, category |-> c] :
        a \in {-3, -1, 2, 5}, c \in {CANYIN, QITA}}

AdviceRules ==
    {[high_dining_threshold |-> d, low_saving_threshold |-> s] :
        d \in {DEFAULT_ADVICE_RULES.high_dining_threshold, 50},
        s \in {DEFAULT_ADVICE_RULES.low_saving_threshold, 60}}

AdviceInit ==
    /\ cache = <<>>
    /\ call \in {[op |-> "generate_advice", advice_rules |-> rules,
                  df |-> [columns |-> {"amount", "is_income", "category"}, rows |-> rows]] :
                    rows \in SeqsUpTo(AdviceRows, MaxTx), rules \in AdviceRules}
    /\ outcome = Pending
    /\ everLoaded = FALSE
    /\ lastGood = NoGood

GenerateAdvice ==
    /\ call.op = "generate_advice"
    /\ outcome = Pending
    /\ \E r \in {generate_advice(analyze_statements(call.df), call.advice_rules)} :
          outcome' = Returned(r)
    /\ UNCHANGED <<cache, call, everLoaded, lastGood>>

AdviceNext == GenerateAdvice

AdviceSpec == AdviceInit /\ [][AdviceNext]_vars

-----------------------------------------------------------------------------
(* predict_activity called with any short time string on small frames     *)
(* whose rows lie around midnight and around noon.                         *)

MaxTimeLen == 3

TimeTokens == {"0", "1", "2", "9", "+", "-", "a"}

TimeStrings == SeqsUpTo(TimeTokens, MaxTimeLen)

PredictHours == {0, 1, 12, 22, 23}

\* One or two expenses, the first of 1 and the second of 2, at any of the hours.
PredictRows ==
    {<<RawRow(Oct(1), h, -1, LUNCH)>> : h \in PredictHours}
        \cup {<<RawRow(Oct(1), h[1], -1, LUNCH), RawRow(Oct(2), h[2], -2, BUS)>> :
                  h \in PredictHours \X PredictHours}

PredictFrames ==
    {Preprocessed(rows) : rows \in PredictRows} \cup {Categorized(rows) : rows \in PredictRows}

PredictInit ==
    /\ cache = <<>>
    /\ call \in {[op |-> "predict_activity", df |-> df, time_str |-> time_str] :
                    df \in PredictFrames, time_str \in TimeStrings}
    /\ outcome = Pending
    /\ everLoaded = FALSE
    /\ lastGood = NoGood

PredictActivity ==
    /\ call.op = "predict_activity"
    /\ outcome = Pending
    /\ \E r \in {predict_activity(with_hour_column(call.df), call.time_str)} : outcome' = r
    /\ UNCHANGED <<cache, call, everLoaded, lastGood>>

PredictNext == PredictActivity

PredictSpec == PredictInit /\ [][PredictNext]_vars

-----------------------------------------------------------------------------
(* parser.py and main.py: the row-by-row pipeline.  A file is a header (a  *)
(* sequence of column names) and lines; a line is the sequence of its      *)
(* cells.  A cell is [form, num, text]: form tells how the string reads    *)
(* (a date in one of the formats, a number, anything else), num the date   *)
(* ordinal or the number it spells, text the tokens of a free text.        *)

Cell(form, num, text) == [form |-> form, num |-> num, text |-> text]

\* The restval of csv.DictReader: the value of a column the line is too
\* short to reach.
None == Cell("None", 0, <<>>)

csv_mapping ==
    [date_col |-> "date", amount_col |-> "amount", description_col |-> "description",
     type_col |-> "type", income_keyword |-> SHOURU, expense_keyword |-> ZHICHU]

\* csv.DictReader: a line without cells is passed over; every other line
\* becomes a dict from the header's names to the line's cells, None where
\* the line ends early.
DictRow(header, cells) ==
    [name \in Range(header) |->
        LET i == CHOOSE k \in 1..Len(header) : header[k] = name
        IN  IF i <= Len(cells) THEN cells[i] ELSE None]

RECURSIVE DictReader(_, _)
DictReader(header, lines) ==
    IF lines = <<>> THEN <<>>
    ELSE IF Head(lines) = <<>> THEN DictReader(header, Tail(lines))
    ELSE <<DictRow(header, Head(lines))>> \o DictReader(header, Tail(lines))

RaisedWith(e, message) == [raised |-> TRUE, error |-> e, value |-> message]

\* No except clause: the exception of the try block as it is.
parse_except_none(inner) == inner

\* The two except clauses of CsvParser.parse.
parse_except(inner) ==
    IF inner.error = "FileNotFoundError" THEN RaisedWith("ValueError", <<"File not found">>)
    ELSE RaisedWith("ValueError", <<"Error parsing CSV file">> \o inner.value)

\* The body of the try block of CsvParser.parse.
parse_try(file, mapping) ==
    LET required_cols == <<mapping.date_col, mapping.amount_col,
                           mapping.description_col, mapping.type_col>>
        missing == {i \in 1..Len(required_cols) : required_cols[i] \notin Range(file.header)}
    IN  IF ~file.exists THEN RaisedWith("FileNotFoundError", <<>>)
        ELSE IF file.header = <<>>
        THEN RaisedWith("ValueError", <<"CSV file is empty or has no header.">>)
        ELSE IF missing # {}
        THEN RaisedWith("ValueError", <<"Missing required column", required_cols[SetMin(missing)]>>)
        ELSE Returned(DictReader(file.header, file.lines))

\* CsvParser.parse
parse(file, mapping) ==
    IF file.path_empty THEN RaisedWith("ValueError", <<"File path cannot be empty.">>)
    ELSE LET inner == parse_try(file, mapping)
         IN  IF inner.raised THEN parse_except(inner) ELSE inner

\* datetime.strptime tried with "%Y-%m-%d", "%Y/%m/%d", "%m/%d/%Y" in turn.
DateFormats == {"%Y-%m-%d", "%Y/%m/%d", "%m/%d/%Y"}

Transaction(date, amount, description, transaction_type, category, original_data) ==
    [date |-> date, amount |-> amount, description |-> description,
     transaction_type |-> transaction_type, category |-> category,
     original_data |-> original_data]

\* The type decided by the sign alone.
transaction_type_by_sign(transaction_type_str, amount, mapping) ==
    IF amount > 0 THEN "income" ELSE "expense"

\* main.py 48-56: the keywords first, then the sign; "expense" is the value
\* the variable starts with.
transaction_type_of(transaction_type_str, amount, mapping) ==
    IF Contains(mapping.income_keyword, transaction_type_str) THEN "income"
    ELSE IF Contains(mapping.expense_keyword, transaction_type_str) THEN "expense"
    ELSE IF amount > 0 THEN "income"
    ELSE IF amount < 0 THEN "expense"
    ELSE "expense"

\* The body of the for loop for one row: "ok" with the transaction, "skip"
\* when ValueError or KeyError is caught, "raise" with the exception the
\* except clause does not catch.  strptime(None), float(None) and
\* `keyword in None` raise TypeError.
process_row(data, config) ==
    LET mapping == config.csv_mapping
        date_str == data[mapping.date_col]
        amount_str == data[mapping.amount_col]
        description == data[mapping.description_col]
        transaction_type_str == data[mapping.type_col]
        category == classify(description.text, config.classification_rules)
    IN  IF date_str = None THEN [step |-> "raise", error |-> "TypeError", tx |-> <<>>]
        ELSE IF date_str.form \notin DateFormats
        THEN [step |-> "skip", error |-> "ValueError", tx |-> <<>>]
        ELSE IF amount_str = None THEN [step |-> "raise", error |-> "TypeError", tx |-> <<>>]
        ELSE IF amount_str.form # "number"
        THEN [step |-> "skip", error |-> "ValueError", tx |-> <<>>]
        ELSE IF transaction_type_str = None
        THEN [step |-> "raise", error |-> "TypeError", tx |-> <<>>]
        ELSE [step |-> "ok", error |-> "",
              tx |-> <<Transaction(date_str.num, amount_str.num, description,
                          transaction_type_of(transaction_type_str.text, amount_str.num, mapping),
                          category, data)>>]

\* The for loop: transactions collected so far, until a row raises.
RECURSIVE process_rows(_, _, _)
process_rows(transactions, rows, config) ==
    IF rows = <<>> THEN Returned(transactions)
    ELSE LET r == process_row(Head(rows), config)
         IN  IF r.step = "raise" THEN Raised(r.error)
             ELSE process_rows(transactions \o r.tx, Tail(rows), config)

\* ExpenseAnalyzer.generate_monthly_report: the totals.
generate_monthly_report(transactions) ==
    LET income == SelectSeq(transactions, LAMBDA t : t.transaction_type = "income")
        expense == SelectSeq(transactions, LAMBDA t : t.transaction_type = "expense")
        total_income == SumSeq([i \in 1..Len(income) |-> income[i].amount])
        total_expense == SumSeq([i \in 1..Len(expense) |-> Abs(expense[i].amount)])
    IN  [total_income |-> total_income, total_expense |-> total_expense,
         net_balance |-> total_income - total_expense]

default_config == [csv_mapping |-> csv_mapping, classification_rules |-> DEFAULT_CATEGORY_RULES]

\* ExpenseAnalysisManager.analyze_bank_statement
manager_analyze_bank_statement(file, config) ==
    LET raw_transactions_data == parse(file, config.csv_mapping)
        looped == process_rows(<<>>, raw_transactions_data.value, config)
    IN  IF raw_transactions_data.raised THEN raw_transactions_data
        ELSE IF looped.raised THEN looped
        ELSE Returned([transactions |-> looped.value,
                       monthly_report |-> generate_monthly_report(looped.value)])

MaxLines == 2

FullHeader == <<"date", "amount", "type", "description">>

Transfer == <<"zhuan", "zhang">>

DateCells ==
    {Cell("%Y-%m-%d", Oct(1), <<>>), Cell("%m/%d/%Y", Oct(2), <<>>), Cell("text", 0, <<>>)}

AmountCells == {Cell("number", n, <<>>) : n \in {-5, 0, 7}} \cup {Cell("text", 0, <<>>)}

TypeCells == {Cell("text", 0, t) : t \in {SHOURU, ZHICHU, Transfer, ZHICHU \o SHOURU}}

\* Lines of four cells with a good date and every amount and type; lines
\* with each kind of date; lines that end early; the line without cells.
Lines ==
    {<<Cell("%Y-%m-%d", Oct(1), <<>>), a, t, Cell("text", 0, LUNCH)>> :
        a \in AmountCells, t \in TypeCells}
    \cup {<<d, Cell("number", -5, <<>>), Cell("text", 0, ZHICHU), Cell("text", 0, GYM)>> :
            d \in DateCells}
    \cup {SubSeq(<<Cell("%Y/%m/%d", Oct(3), <<>>), Cell("number", -5, <<>>),
                   Cell("text", 0, ZHICHU), Cell("text", 0, GYM)>>, 1, n) : n \in 0..3}

CsvFile(header, lines) ==
    [path_empty |-> FALSE, exists |-> TRUE, header |-> header, lines |-> lines]

CsvFiles ==
    {CsvFile(FullHeader, lines) : lines \in SeqsUpTo(Lines, MaxLines)}
    \cup {CsvFile(SelectSeq(FullHeader, LAMBDA c : c # gone), <<>>) : gone \in Range(FullHeader)}
    \cup {CsvFile(<<>>, <<>>),
          [path_empty |-> TRUE, exists |-> FALSE, header |-> <<>>, lines |-> <<>>],
          [path_empty |-> FALSE, exists |-> FALSE, header |-> <<>>, lines |-> <<>>]}

ManagerInit ==
    /\ cache = <<>>
    /\ call \in {[op |-> op, file |-> file] :
                    op \in {"parse", "manager_analyze"}, file \in CsvFiles}
    /\ outcome = Pending
    /\ everLoaded = FALSE
    /\ lastGood = NoGood

Parse ==
    /\ call.op = "parse"
    /\ outcome = Pending
    /\ \E r \in {parse(call.file, csv_mapping)} :
          outcome' = IF r.raised THEN r ELSE Returned([rows |-> r.value])
    /\ UNCHANGED <<cache, call, everLoaded, lastGood>>

ManagerAnalyze ==
    /\ call.op = "manager_analyze"
    /\ outcome = Pending
    /\ \E r \in {manager_analyze_bank_statement(call.file, default_config)} : outcome' = r
    /\ UNCHANGED <<cache, call, everLoaded, lastGood>>

ManagerNext == Parse \/ ManagerAnalyze

ManagerSpec == ManagerInit /\ [][ManagerNext]_vars

-----------------------------------------------------------------------------
(* Properties of the session                                               *)

NotLoaded == "RuntimeError:NotLoaded"

TotalExpenseQuery == <<"wo", "de", "zong", "zhi", "chu", "shi", "duo", "shao">>
DiningExpenseQuery == <<"wo", "de", "can", "yin", "zhi", "chu", "shi", "duo", "shao">>

\* C1: while no analyze_bank_statement call has succeeded in the session,
\* every query_bank_statement call raises the NotLoaded RuntimeError and
\* returns no answer.
C1_QueryBeforeLoadRaises ==
    (call.op = "query" /\ ~everLoaded) =>
        (outcome.raised /\ outcome.error = NotLoaded)

\* C2: after analyze_bank_statement has returned, the cached frame is the
\* classified one: it has the category column, each row carries the label
\* classification gave it during that load, and the dining-expense query is
\* answered with the summed magnitude of the cached dining expenses.
C2_CacheIsClassified ==
    /\ (call.op = "load" /\ ~outcome.raised) =>
          /\ cache # <<>>
          /\ "category" \in cache[1].columns
          /\ \A i \in 1..Len(cache[1].rows) :
                cache[1].rows[i].category =
                    row_category(cache[1].rows[i], current_category_rules(call.config))
    /\ (call.op = "query" /\ lastGood.valid /\ call.query = DiningExpenseQuery) =>
          /\ outcome.value.kind = "category_expense"
          /\ outcome.value.value =
                Abs(SumSeq(Amounts(SelectSeq(cache[1].rows,
                    LAMBDA r : r.category = CANYIN /\ ~r.is_income))))

\* C3: a load that raises, at whichever step, leaves the cache exactly as
\* it was before the call.
C3_FailedLoadKeepsCache ==
    [][(call'.op = "load" /\ outcome'.raised) => cache' = cache]_vars

\* C4: after a run of successful loads the cache holds exactly the rows of
\* the most recent one, none of an earlier load, and each query is answered
\* from those rows alone.
C4_LatestLoadOnly ==
    lastGood.valid =>
        /\ Len(cache) = 1
        /\ Len(cache[1].rows) = Len(lastGood.rows)
        /\ \A i \in 1..Len(lastGood.rows) :
              /\ cache[1].rows[i].date = lastGood.rows[i].date
              /\ cache[1].rows[i].amount = lastGood.rows[i].amount
              /\ cache[1].rows[i].description = lastGood.rows[i].description
        /\ (call.op = "query" /\ call.query = TotalExpenseQuery) =>
              /\ ~outcome.raised
              /\ outcome.value.kind = "total_expense"
              /\ outcome.value.value =
                    SumSeq([i \in 1..Len(lastGood.rows) |->
                               IF lastGood.rows[i].amount < 0
                               THEN -lastGood.rows[i].amount ELSE 0])

\* A second successful load has replaced a non-empty earlier one and the
\* total-expense query has been answered.
C4_Witness ==
    /\ lastGood.valid
    /\ lastGood.replaced
    /\ lastGood.rows # <<>>
    /\ call.op = "query"
    /\ call.query = TotalExpenseQuery
    /\ outcome.value.value > 0

-----------------------------------------------------------------------------
(* Properties of the aggregation                                           *)

Analysed == outcome # Pending

Magnitudes(rows) == {Abs(rows[i].amount) : i \in 1..Len(rows)}

\* The sum of d over the labels it is defined on.
SumOfDict(d) ==
    SumSeq([i \in 1..Len(LabelOrder) |->
               IF LabelOrder[i] \in DOMAIN d THEN d[LabelOrder[i]] ELSE 0])

\* C5: for every frame of amounts and is_income flags given to
\* analyze_statements, total_income - total_expense equals net_balance.
C5_BalanceIdentity ==
    (call.op = "analyze_statements" /\ Analysed) =>
        LET a == outcome.value.analysis
        IN  a.total_income - a.total_expense = a.net_balance

\* C6: category_expense_percentages is empty when total_expense is 0;
\* otherwise the per-category amounts sum to total_expense, each percentage
\* is category amount / total_expense * 100, and the percentages sum to 100.
C6_PercentagesSumTo100 ==
    (call.op = "analyze_table" /\ Analysed) =>
        LET a == outcome.value.analysis
            ce == a.category_expenses
            pct == a.category_expense_percentages
        IN  /\ a.total_expense = 0 => pct = <<>>
            /\ a.total_expense > 0 =>
                  /\ DOMAIN pct = DOMAIN ce
                  /\ SumOfDict(ce) = a.total_expense
                  /\ \A c \in DOMAIN pct :
                        /\ pct[c].den = a.total_expense
                        /\ pct[c].num = ce[c] * 100
                  /\ SumOfDict([c \in DOMAIN pct |-> pct[c].num]) = 100 * a.total_expense

\* Expenses in two categories have been aggregated.
C6_Witness ==
    /\ call.op = "analyze_table" /\ Analysed
    /\ outcome.value.analysis.total_expense > 0
    /\ Cardinality(DOMAIN outcome.value.analysis.category_expense_percentages) = 2

\* C7: aggregating the empty table gives 0 for the three totals, empty
\* category mappings, 0 for largest_expense, smallest_expense and
\* largest_income, and a report with the no-expense-data marker and no
\* category line.
C7_EmptyTableIsAllZero ==
    (call.op = "analyze_table" /\ Analysed /\ call.rows = <<>>) =>
        LET a == outcome.value.analysis
            report == outcome.value.report
        IN  /\ a.total_income = 0 /\ a.total_expense = 0 /\ a.net_balance = 0
            /\ a.category_expenses = <<>>
            /\ a.category_expense_percentages = <<>>
            /\ a.largest_expense = 0
            /\ a.smallest_expense = Num(0)
            /\ a.largest_income = 0
            /\ report.no_expense_data
            /\ report.category_lines = <<>>

\* The empty table has been aggregated and its report rendered.
C7_Witness ==
    /\ call.op = "analyze_table" /\ Analysed
    /\ call.rows = <<>>
    /\ outcome.value.report.no_expense_data

\* C8: largest_expense is the expense of greatest magnitude, smallest_expense
\* the expense of least magnitude among those whose amount is not zero, and
\* both are 0 when the table has no expense.
C8_LargestAndSmallestExpense ==
    (call.op = "analyze_table" /\ Analysed) =>
        LET a == outcome.value.analysis
            expenses == SelectSeq(outcome.value.df.rows, LAMBDA r : ~r.is_income)
            nonzero == SelectSeq(expenses, LAMBDA r : r.amount # 0)
        IN  /\ expenses = <<>> =>
                  (a.largest_expense = 0 /\ a.smallest_expense = Num(0))
            /\ expenses # <<>> =>
                  /\ a.largest_expense \in Range(Amounts(expenses))
                  /\ \A m \in Magnitudes(expenses) : m <= Abs(a.largest_expense)
            /\ nonzero # <<>> =>
                  /\ ~a.smallest_expense.nan
                  /\ a.smallest_expense.v \in Range(Amounts(nonzero))
                  /\ \A m \in Magnitudes(nonzero) : Abs(a.smallest_expense.v) <= m

\* Expenses of amounts -2, -1 and 0 have been aggregated.
C8_Witness ==
    /\ call.op = "analyze_table" /\ Analysed
    /\ {-2, -1, 0} \subseteq Range(Amounts(call.rows))
    /\ outcome.value.analysis.largest_expense = -2
    /\ outcome.value.analysis.smallest_expense = Num(-1)

-----------------------------------------------------------------------------
(* Properties of the classification                                        *)

\* The rules, by index, one of whose keywords occurs in the description
\* as a substring, letter case aside.
RulesContaining(description, rules) ==
    {i \in 1..Len(rules) :
        \E k \in 1..Len(rules[i].keywords) :
            LET kw == rules[i].keywords[k]
            IN  \E p \in 0..(Len(description) - Len(kw)) :
                    \A j \in 1..Len(kw) : Lower(kw[j]) = Lower(description[p + j])}

C10_BulkFirstMatchWins ==
    (call.op = "apply_category" /\ Analysed /\ ~call.df.rows[1].is_income) =>
        LET expense_rules == SelectSeq(call.rules, LAMBDA rule : rule.category # SHOURU)
            hits == RulesContaining(call.df.rows[1].description, expense_rules)
        IN  /\ ~outcome.raised
            /\ outcome.value.rows[1].category =
                  IF hits = {} THEN QITA ELSE expense_rules[SetMin(hits)].category

\* C11: in apply_category the income category's keywords apply only to
\* rows flagged is_income: an expense row never ends with the income
\* category, and an income row ends with the income category or the default
\* label, never with an expense category.
C11_IncomeRuleOnlyOnIncomeRows ==
    (call.op = "apply_category" /\ Analysed /\ ~outcome.raised) =>
        LET row == outcome.value.rows[1]
        IN  /\ ~row.is_income => row.category # SHOURU
            /\ row.is_income => row.category \in {SHOURU, QITA}
            /\ row.category = SHOURU =>
                  \E i \in 1..Len(call.rules) : call.rules[i].category = SHOURU

\* An expense row whose description holds a keyword of the income rule has
\* been categorized and kept the default label.
C11_Witness ==
    /\ call.op = "apply_category" /\ Analysed /\ ~outcome.raised
    /\ ~call.df.rows[1].is_income
    /\ call.df.rows[1].description = <<"a", "b">>
    /\ call.rules = <<Rule(SHOURU, <<<<"a">>>>)>>
    /\ outcome.value.rows[1].category = QITA

\* C12: once a load has succeeded and no later load has failed, a query
\* that reaches the Answerer and contains a total-expense phrase is answered
\* with the total expense, a non-negative figure equal to the magnitude of
\* the sum of the expense amounts in the cache and to the total_expense of
\* the report that load returned.
AsksTotalExpense(query) ==
    Contains(ZONGZHICHU, LowerStr(query)) \/ Contains(YIGONGHUA, LowerStr(query))

ChecksMatching(query) ==
    LET q == LowerStr(query)
    IN  (IF Contains(ZONGZHICHU, q) \/ Contains(YIGONGHUA, q) THEN {1} ELSE {})
        \cup (IF Contains(ZONGSHOURU, q) \/ Contains(YIGONGZHUAN, q) THEN {2} ELSE {})
        \cup (IF Contains(JINGJIEYU, q) \/ Contains(HAISHENG, q) THEN {3} ELSE {})
        \cup (IF \E i \in 1..Len(QueryCategories) :
                    \/ Contains(QueryCategories[i] \o ZHICHU, q)
                    \/ Contains(SpentOn(QueryCategories[i]), q)
                    \/ Contains(QueryCategories[i] \o SHOURU, q)
              THEN {4} ELSE {})
        \cup (IF Contains(HUALEDUOSHAOQIAN, q) \/ Contains(ZHICHU, q) THEN {5} ELSE {})
        \cup (IF Contains(ZHUANLEDUOSHAOQIAN, q) \/ Contains(SHOURU, q) THEN {6} ELSE {})
        \cup (IF Contains(HUAQIANZUIDUO, q) THEN {7} ELSE {})
        \cup (IF Contains(ZUOLESHENME, q) \/ Contains(HUODONG, q) THEN {8} ELSE {})
        \cup {9}

FirstCheck(query) == SetMin(ChecksMatching(query))

KindsOfCheck(i) ==
    CASE i = 1 -> {"total_expense"}
      [] i = 2 -> {"total_income"}
      [] i = 3 -> {"net_balance"}
      [] i = 4 -> {"category_expense", "category_income"}
      [] i = 5 -> {"time_expense"}
      [] i = 6 -> {"time_income"}
      [] i = 7 -> {"most_expensive", "no_expense_in_range"}
      [] i = 8 -> {"need_date", "activity", "no_activity"}
      [] i = 9 -> {"not_understood"}

AllExpenses(df) == Abs(SumSeq(Amounts(SelectSeq(df.rows, LAMBDA r : r.amount <= 0))))

\* C13: answer_query answers with the first check of the cascade that the
\* query matches, in the order total expense, total income, net balance,
\* per category, then the sub-intents of the time range, then the fallback;
\* a query with a total-expense phrase and a time phrase gets the total of
\* all expenses, and a query matching no check gets the not-understood
\* message.  When the call raises, it is the first matching check that
\* raised: KeyError from a check reading the category column of a frame
\* without one, ValueError from the activity check on an impossible date.
C13_FirstMatchingCheckAnswers ==
    (call.op = "answer_query" /\ Analysed) =>
        LET first == FirstCheck(call.query)
        IN  /\ ~outcome.raised => outcome.value.kind \in KindsOfCheck(first)
            /\ outcome.raised =>
                  \/ outcome.error = "KeyError" /\ first \in {4, 7}
                       /\ "category" \notin call.df.columns
                  \/ outcome.error = "ValueError" /\ first = 8
            /\ first = 1 => ~outcome.raised /\ outcome.value.value = AllExpenses(call.df)
            /\ first = 9 => ~outcome.raised

C13_Witness ==
    /\ call.op = "answer_query" /\ Analysed
    /\ call.query = SHANGZHOU \o ZONGZHICHU
    /\ call.df = Categorized(OctoberRows)
    /\ outcome.value.kind = "total_expense" /\ outcome.value.value = 15

TriggerWords ==
    {<<"yu4", "ce">>, <<"tong", "chang", "hui">>, <<"jing", "chang", "hui">>,
     <<"ke", "neng", "zuo2">>, <<"xi", "guan">>}

HasTriggerWord(query) == \E w \in TriggerWords : Contains(w, query)

PredictorKinds == {"prediction", "no_history", "invalid_hour", "need_time"}

AnswererKinds ==
    {"total_expense", "total_income", "net_balance", "category_expense", "category_income",
     "time_expense", "time_income", "most_expensive", "no_expense_in_range",
     "need_date", "activity", "no_activity", "not_understood"}

\* C14: a query on a loaded cache goes to the Predictor exactly when it
\* contains one of the five trigger words: what comes back for a query with
\* a trigger word is never an answer of the Answerer, even when the query
\* also holds a phrase the Answerer knows, and what comes back for a query
\* without one is never a text of the Predictor.
C14_TriggerWordRoutesToPredictor ==
    (call.op = "query" /\ ~outcome.raised) =>
        /\ HasTriggerWord(call.query) => outcome.value.kind \in PredictorKinds \cup {"apology"}
        /\ ~HasTriggerWord(call.query) => outcome.value.kind \in AnswererKinds \cup {"apology"}

C14_Witness ==
    /\ call.op = "query" /\ ~outcome.raised
    /\ call.query = <<"yu4", "ce", "wo", "de", "zong", "zhi", "chu">>
    /\ outcome.value.kind = "need_time"

Malformed(file) ==
    \/ ~file.readable
    \/ ~({"date", "amount", "description"} \subseteq file.columns)
    \/ \E i \in 1..Len(file.rows) : ~file.rows[i].dateOk \/ ~file.rows[i].amountOk

\* C16: a call of analyze_bank_statement that fails raises one of three
\* types and no other: FileNotFoundError exactly when the file is missing,
\* ValueError exactly when the file is there and its data is malformed
\* (unreadable, a required column missing, a date that does not parse, an
\* amount that is not a number), RuntimeError for every other failure.
C16_ThreeFailureTypes ==
    /\ (call.op = "load" /\ outcome.raised) =>
          /\ outcome.error \in {"FileNotFoundError", "ValueError", "RuntimeError"}
          /\ outcome.error = "FileNotFoundError" <=> ~call.file.exists
          /\ outcome.error = "ValueError" <=> (call.file.exists /\ Malformed(call.file))
          /\ outcome.error = "RuntimeError" <=> (call.file.exists /\ ~Malformed(call.file))
    /\ (call.op = "load" /\ (~call.file.exists \/ Malformed(call.file))) => outcome.raised

C16_Witness ==
    /\ call.op = "load" /\ outcome.raised /\ outcome.error = "RuntimeError"
    /\ call.file.exists /\ ~Malformed(call.file) /\ Len(call.file.rows) = 2

IsMonday(date) == (date - Oct(9)) % 7 = 0

ExpensesDated(df, from, to) ==
    Abs(SumSeq(Amounts(SelectSeq(df.rows,
        LAMBDA r : r.amount <= 0 /\ from <= r.date /\ r.date <= to))))

\* C17: whatever the day and hour the query is asked at, an expense query
\* saying 'last week' or 'the past week' is answered for the seven days
\* from the Monday to the Sunday before the Monday of the current week,
\* both days included whatever the hour of a transaction, and the figure is
\* the magnitude of the sum of the expenses dated on those days.
C17_LastWeekIsMondayToSunday ==
    (call.op = "answer_query" /\ call.family = "last_week" /\ Analysed) =>
        /\ ~outcome.raised
        /\ outcome.value.kind = "time_expense"
        /\ LET from == outcome.value.from
               to == outcome.value.to
           IN  /\ IsMonday(from)
               /\ to = from + 6
               /\ to + 1 <= call.now.date /\ call.now.date <= to + 7
               /\ outcome.value.value = ExpensesDated(call.df, from, to)

C17_Witness ==
    /\ call.op = "answer_query" /\ call.family = "last_week" /\ Analysed
    /\ call.now = [date |-> Oct(9), hour |-> 23]
    /\ call.df = Preprocessed(OctoberRows)
    /\ outcome.value.from = Oct(2) /\ outcome.value.to = Oct(8)
    /\ outcome.value.value = 6

NamedYear == IF call.named.style = "yue" THEN YearOf(call.now.date) ELSE 2023

NamedDate == Ordinal(NamedYear, call.named.month, call.named.day)

RowsDated(df, date) == SelectSeq(df.rows, LAMBDA r : r.date = date)

\* C18: an activity query that names a date is answered with the
\* transactions of the frame dated on that day, each with its time, its
\* description and its signed amount, in the frame's order, whatever time
\* range the rest of the query stands for; with the no-activity message
\* when the frame has none on that day; and a query naming no date is asked
\* for one.  A month-and-day date is of the current year.
C18_ActivityOfTheNamedDate ==
    (call.op = "answer_query" /\ call.family = "activity" /\ Analysed) =>
        IF call.named.style = "none"
        THEN ~outcome.raised /\ outcome.value.kind = "need_date"
        ELSE IF ~DateValid(NamedYear, call.named.month, call.named.day)
        THEN outcome.raised /\ outcome.error = "ValueError"
        ELSE LET rows == RowsDated(call.df, NamedDate)
             IN  /\ ~outcome.raised
                 /\ outcome.value.from = NamedDate
                 /\ IF rows = <<>> THEN outcome.value.kind = "no_activity"
                    ELSE /\ outcome.value.kind = "activity"
                         /\ outcome.value.items =
                               [i \in 1..Len(rows) |->
                                   [hour |-> rows[i].hour, description |-> rows[i].description,
                                    amount |-> rows[i].amount]]

C18_Witness ==
    /\ call.op = "answer_query" /\ call.family = "activity" /\ Analysed
    /\ call.now.date = Oct(9)
    /\ call.query = SHANGZHOU \o DatePhrase("nian", 10, 9) \o ZUOLESHENME
    /\ outcome.value.kind = "activity"
    /\ outcome.value.items = <<[hour |-> 0, description |-> GYM, amount |-> -8]>>

HourNamed(query) == IntOf(time_match(query), 1, Len(time_match(query)))

CachedAround(hour) ==
    SelectSeq(cache[1].rows, LAMBDA r : hour - 1 <= r.hour /\ r.hour <= hour + 1)

\* C19: once a load has succeeded, a prediction query naming an hour around
\* which the cache holds a transaction is answered with a prediction that
\* names a category no other category of those transactions is more
\* frequent than, with the dining remark exactly when that category is
\* dining and the transport remark exactly when it is transport.
C19_PredictionNamesModalCategory ==
    (call.op = "query" /\ lastGood.valid /\ HasTriggerWord(call.query)
        /\ time_match(call.query) # <<>> /\ HourNamed(call.query) \in 0..23
        /\ CachedAround(HourNamed(call.query)) # <<>>) =>
        LET window == CachedAround(HourNamed(call.query))
            categories == [i \in 1..Len(window) |-> window[i].category]
        IN  /\ ~outcome.raised
            /\ outcome.value.kind = "prediction"
            /\ Count(categories, outcome.value.category) >= 1
            /\ \A i \in 1..Len(categories) :
                  Count(categories, categories[i]) <= Count(categories, outcome.value.category)
            /\ outcome.value.remark = "dining" <=> outcome.value.category = CANYIN
            /\ outcome.value.remark = "transport" <=> outcome.value.category = JIAOTONG

Messages == Range(outcome.value)

\* C20: generate_advice always returns at least one message, and the
\* general 'healthy' message is there exactly when no message of the dining
\* check or of the savings check is: it never comes with the dining, the
\* low-savings or the no-income message.
C20_GeneralAdviceOnlyAlone ==
    (call.op = "generate_advice" /\ Analysed) =>
        /\ Len(outcome.value) >= 1
        /\ "healthy" \in Messages <=>
              Messages \cap {"high_dining", "low_saving", "no_income"} = {}
        /\ "healthy" \in Messages => outcome.value = <<"healthy">>

C20_Witness ==
    /\ call.op = "generate_advice" /\ Analysed
    /\ outcome.value = <<"high_dining", "low_saving">>

-----------------------------------------------------------------------------
(* Properties of the row-by-row pipeline                                   *)

Parses(file) ==
    /\ ~file.path_empty /\ file.exists /\ file.header # <<>>
    /\ Range(FullHeader) \subseteq Range(file.header)

WellFormedLine(line) ==
    /\ Len(line) = Len(FullHeader)
    /\ line[1].form \in DateFormats
    /\ line[2].form = "number"

\* C21: the row-by-row pipeline skips a row whose date or amount does not
\* parse or which lacks a mapped field, and never fails for it: the call
\* returns, its transactions are those of the well-formed lines, in the
\* order of the file, and the report is the one computed from them.
C21_MalformedRowsAreSkipped ==
    (call.op = "manager_analyze" /\ outcome # Pending /\ Parses(call.file)) =>
        LET good == SelectSeq(call.file.lines, WellFormedLine)
        IN  /\ ~outcome.raised
            /\ Len(outcome.value.transactions) = Len(good)
            /\ \A i \in 1..Len(good) :
                  /\ outcome.value.transactions[i].date = good[i][1].num
                  /\ outcome.value.transactions[i].amount = good[i][2].num
                  /\ outcome.value.transactions[i].description = good[i][4]
            /\ outcome.value.monthly_report =
                  generate_monthly_report(outcome.value.transactions)

NonBlank(lines) == SelectSeq(lines, LAMBDA line : line # <<>>)

\* C22: CsvParser.parse fails with ValueError and with nothing else: for
\* an empty path, for a file that does not exist ('File not found'), for a
\* file without header, and for a header lacking one of the four mapped
\* columns, each time with a message naming the problem; otherwise it
\* returns one dict per data line, in the order of the file, each cell as
\* it stands in the file whether or not it parses as a date or a number.
C22_ParseRaisesOnlyValueError ==
    (call.op = "parse" /\ outcome # Pending) =>
        LET file == call.file
            gone == {c \in Range(FullHeader) : c \notin Range(file.header)}
        IN  /\ outcome.raised => outcome.error = "ValueError"
            /\ outcome.raised <=> ~Parses(file)
            /\ file.path_empty => outcome.value = <<"File path cannot be empty.">>
            /\ (~file.path_empty /\ ~file.exists) => outcome.value = <<"File not found">>
            /\ (~file.path_empty /\ file.exists /\ file.header = <<>>) =>
                  "CSV file is empty or has no header." \in Range(outcome.value)
            /\ (~file.path_empty /\ file.exists /\ file.header # <<>> /\ gone # {}) =>
                  /\ "Missing required column" \in Range(outcome.value)
                  /\ \E c \in gone : c \in Range(outcome.value)
            /\ Parses(file) =>
                  LET lines == NonBlank(file.lines)
                      rows == outcome.value.rows
                  IN  /\ Len(rows) = Len(lines)
                      /\ \A i \in 1..Len(lines) : \A k \in 1..Len(lines[i]) :
                            rows[i][file.header[k]] = lines[i][k]

C22_Witness ==
    /\ call.op = "parse" /\ outcome # Pending /\ ~outcome.raised
    /\ Len(outcome.value.rows) = 2
    /\ outcome.value.rows[2]["amount"] = Cell("text", 0, <<>>)


-----------------------------------------------------------------------------
(* Further properties of the session and of the aggregation                *)

\* C23: a call of query_bank_statement, whichever path it takes and
\* whether it answers or returns the apology, leaves the cache as it was:
\* the same rows with the same date, amount, description, hour and
\* is_income, so that an answer does not depend on the queries made before.
C23_QueriesLeaveCacheUnchanged ==
    [][call'.op = "query" => cache' = cache]_vars

C23_Witness ==
    /\ call.op = "query" /\ lastGood.valid /\ Len(cache[1].rows) = 2
    /\ HasTriggerWord(call.query) /\ time_match(call.query) = <<"1", "2">>
    /\ cache[1].rows[1].hour = 10

IncomeOf(df) == SumSeq(Amounts(SelectSeq(df.rows, LAMBDA r : r.amount > 0)))

BalanceOf(df) == SumSeq(Amounts(df.rows))

\* C24: the savings check of generate_advice emits the low-savings message
\* exactly when total_income > 0 and net_balance / total_income is strictly
\* below the savings threshold, the no-income message exactly when
\* total_income = 0 and net_balance < 0, never both and never by dividing
\* by zero (the call always returns); a dining message, when there is one,
\* comes before the message of the savings check.
C24_SavingsCheck ==
    (call.op = "generate_advice" /\ Analysed) =>
        LET income == IncomeOf(call.df)
            balance == BalanceOf(call.df)
            threshold == call.advice_rules.low_saving_threshold
        IN  /\ ~outcome.raised
            /\ "low_saving" \in Messages <=> (income > 0 /\ balance * 100 < threshold * income)
            /\ "no_income" \in Messages <=> (income = 0 /\ balance < 0)
            /\ ~("low_saving" \in Messages /\ "no_income" \in Messages)
            /\ ("high_dining" \in Messages /\ Len(outcome.value) > 1) =>
                  /\ outcome.value[1] = "high_dining"
                  /\ outcome.value[2] \in {"low_saving", "no_income"}
                  /\ Len(outcome.value) = 2

C24_Witness ==
    /\ call.op = "generate_advice" /\ Analysed
    /\ call.advice_rules.low_saving_threshold = 60
    /\ IncomeOf(call.df) = 5 /\ BalanceOf(call.df) = 3
    /\ "low_saving" \notin Messages

\* The hours a time string names: it is digits after an optional sign and
\* its value, negated under a minus sign, is the hour.
HoursNamed(time_str) ==
    {h \in 0..23 :
        \E sign \in {<<>>, <<"+">>, <<"-">>} : \E n \in 1..Len(time_str) :
            /\ Len(time_str) = Len(sign) + n
            /\ SubSeq(time_str, 1, Len(sign)) = sign
            /\ \A i \in Len(sign) + 1..Len(time_str) : time_str[i] \in Digits
            /\ IntOf(time_str, Len(sign) + 1, n) = (IF sign = <<"-">> THEN -h ELSE h)}

WithinOneHour(df, h) == SelectSeq(df.rows, LAMBDA r : h - 1 <= r.hour /\ r.hour <= h + 1)

\* C25: predict_activity does not raise on a bad hour: a time string that
\* is not an integer, or is an integer outside 0..23, gets a guidance
\* message whatever the frame holds; for a valid hour h the transactions
\* considered are exactly those whose hour is in h-1..h+1, with no wrap
\* around midnight, and the no-data message is returned when there are none.
C25_PredictActivityChecksTheHour ==
    (call.op = "predict_activity" /\ Analysed) =>
        /\ HoursNamed(call.time_str) = {} =>
              /\ ~outcome.raised
              /\ outcome.value.kind \in {"not_a_number", "invalid_hour"}
              /\ outcome.value.kind = "not_a_number" <=>
                    \/ call.time_str = <<>>
                    \/ \E i \in 1..Len(call.time_str) :
                          /\ call.time_str[i] \notin Digits
                          /\ ~(i = 1 /\ call.time_str[i] \in {"+", "-"})
                    \/ call.time_str \in {<<"+">>, <<"-">>}
        /\ \A h \in HoursNamed(call.time_str) :
              LET considered == WithinOneHour(call.df, h)
              IN  /\ considered = <<>> =>
                        ~outcome.raised /\ outcome.value.kind = "no_history"
                  /\ considered # <<>> =>
                        \/ outcome = Raised("KeyError") /\ "category" \notin call.df.columns
                        \/ /\ ~outcome.raised
                           /\ outcome.value.kind = "prediction"
                           /\ outcome.value.hour = h
                           /\ outcome.value.spending = -SumSeq(Amounts(considered))

C25_Witness ==
    /\ call.op = "predict_activity" /\ Analysed
    /\ call.time_str = <<"0">>
    /\ Len(call.df.rows) = 2 /\ "category" \in call.df.columns
    /\ call.df.rows[1].hour = 23 /\ call.df.rows[2].hour = 1
    /\ outcome.value.kind = "prediction" /\ outcome.value.spending = 2

TypeField(t) == t.original_data[csv_mapping.type_col].text

\* C26: every transaction the row-by-row pipeline constructs has the type
\* "income" or "expense": "income" when its type field contains the income
\* keyword, otherwise "expense" when it contains the expense keyword,
\* whatever the sign of the amount; with neither keyword the sign decides,
\* positive for income and negative for expense, and a zero amount is an
\* expense.
C26_TypeIsKeywordThenSign ==
    (call.op = "manager_analyze" /\ Analysed /\ ~outcome.raised) =>
        \A i \in 1..Len(outcome.value.transactions) :
            LET t == outcome.value.transactions[i]
                says_income == Contains(csv_mapping.income_keyword, TypeField(t))
                says_expense == Contains(csv_mapping.expense_keyword, TypeField(t))
            IN  /\ t.transaction_type \in {"income", "expense"}
                /\ says_income => t.transaction_type = "income"
                /\ (~says_income /\ says_expense) => t.transaction_type = "expense"
                /\ (~says_income /\ ~says_expense) =>
                      (t.transaction_type = "income" <=> t.amount > 0)

C26_Witness ==
    /\ call.op = "manager_analyze" /\ Analysed /\ ~outcome.raised
    /\ Len(outcome.value.transactions) = 2
    /\ LET first == outcome.value.transactions[1]
           second == outcome.value.transactions[2]
       IN  /\ TypeField(first) = ZHICHU \o SHOURU /\ first.amount = -5
           /\ first.transaction_type = "income"
           /\ TypeField(second) = Transfer /\ second.amount = 0
           /\ second.transaction_type = "expense"

\* C27: for every table with at least one transaction analyze_statements
\* gives a defined number for smallest_expense, largest_expense and
\* largest_income, also when every expense has the amount zero, and the
\* report shows a number for the smallest expense.
C27_ExtremesAreDefined ==
    (call.op = "analyze_table" /\ Analysed /\ call.rows # <<>>) =>
        /\ ~outcome.value.analysis.smallest_expense.nan
        /\ outcome.value.analysis.largest_expense \in Int
        /\ outcome.value.analysis.largest_income \in Int
        /\ ~outcome.value.report.smallest_expense.nan

====
